---- MODULE Spec2Model ----
(***************************************************************************)
(* Zero-CAC DFS (umac/dfs/core/src/misc/dfs_zero_cac.c), frequency API.    *)
(* The preCAC forest: a list of entries, one per 80 MHz DFS centre, each   *)
(* owning a binary search tree of 20/40/80 MHz nodes with the three        *)
(* sub-channel counters (valid / CAC done / NOL).                          *)
(***************************************************************************)
EXTENDS Integers, Sequences, FiniteSets, TLC

VARIABLES
    dfs_precac_list,   \* the forest: sequence of entries, head first
    dfs_curchan,       \* the serving channel [mode, seg1, seg2]
    last,              \* the last call: [op, args, ret]
    pre,               \* the forest before the last call
    nevents,           \* number of forest events so far
    watch,             \* the sub-channel whose CAC credit is followed
    freed,             \* what the last teardown of the forest freed
    dfs,               \* the preCAC fields of struct wlan_dfs (this radio)
    dfs_soc_obj,       \* the preCAC fields of struct dfs_soc_priv_obj
    ctx,               \* where each execution context is in its handler
    precac_list_lock   \* the holder of PRECAC_LIST_LOCK, or NoHolder

\* the contexts and the lock, which move only when handlers interleave
conc == <<ctx, precac_list_lock>>

\* what the forest calls leave alone besides the forest and its history
ctl == <<watch, freed, dfs, dfs_soc_obj, conc>>

vars == <<dfs_precac_list, dfs_curchan, last, pre, nevents, ctl>>

(***************************************************************************)
(* Bounds of the model.                                                    *)
(***************************************************************************)
\* number of radar reports / NOL expiries / CAC completions explored
\* together with the channel selection
MaxEvents == 4
\* number of calls explored when the last call is remembered
MaxHistEvents == 5
\* number of 80 MHz centres (5 MHz apart) for which a tree is built
MaxCentres == 150
\* number of iterations of the node-freeing loop that are followed
MaxFreeSteps == 16
\* number of events (channel set, timer expiry, radar, NOL expiry, firmware
\* completion, CAC completion) explored around the preCAC timer
MaxTimerEvents == 4
\* number of handlers begun while handlers interleave
MaxRaceEvents == 3
MaxAgileEvents == 5
\* number of handler calls on the two radios of a SoC
MaxRadioEvents == 7

(***************************************************************************)
(* Program constants.                                                      *)
(***************************************************************************)
NULL == 0
MIN_DFS_SUBCHAN_BW == 20
DFS_CHWIDTH_20_VAL == 20
DFS_CHWIDTH_40_VAL == 40
DFS_CHWIDTH_80_VAL == 80
N_SUBCHANS_FOR_80BW == 4
TREE_DEPTH == 3
VHT80_FREQ_OFFSET == 30
DFS_160MHZ_SECSEG_CHAN_OFFSET == 40
DFS_5GHZ_NEXT_CHAN_FREQ_OFFSET == 10
DFS_5GHZ_2ND_CHAN_FREQ_OFFSET == 30
DFS_5GHZ_3RD_CHAN_FREQ_OFFSET == 50
DFS_5GHZ_4TH_CHAN_FREQ_OFFSET == 70
UINT8_MOD == 256
UINT16_MOD == 65536

\* {initial offset, next offset} of every tree level, root level first
initial_and_next_offsets == << <<0, 80>>, <<0 - 20, 40>>, <<0 - 30, 20>> >>

N_SUBCHS_FOR_BANDWIDTH(bw) == bw \div MIN_DFS_SUBCHAN_BW

IS_WITHIN_RANGE(A, B, C) == (A >= B - C) /\ (A <= B + C)

\* a value stored into a uint8_t
U8(x) == x % UINT8_MOD

(***************************************************************************)
(* Tree construction.                                                      *)
(***************************************************************************)
dfs_init_precac_tree_node_for_freq(freq, bandwidth) ==
    [ch_freq |-> freq, bandwidth |-> bandwidth,
     n_valid_subchs |-> N_SUBCHS_FOR_BANDWIDTH(bandwidth),
     n_caced_subchs |-> 0, n_nol_subchs |-> 0,
     left_child |-> NULL, right_child |-> NULL]

\* nodes: the heap of tree nodes of one entry, node: an index into it or NULL
dfs_descend_precac_tree_for_freq(nodes, node, chan_freq) ==
    IF node = NULL THEN NULL
    ELSE IF chan_freq < nodes[node].ch_freq THEN nodes[node].left_child
    ELSE nodes[node].right_child

RECURSIVE FindInsertParent(_, _, _)
FindInsertParent(nodes, curr_node, chan_freq) ==
    LET next == dfs_descend_precac_tree_for_freq(nodes, curr_node, chan_freq)
    IN IF next = NULL THEN curr_node
       ELSE FindInsertParent(nodes, next, chan_freq)

\* hangs every new node as the left child of the node the descent ends at
InsertAlwaysLeft(t, chan_freq, bandwidth) ==
    LET new_node == dfs_init_precac_tree_node_for_freq(chan_freq, bandwidth)
        id == Len(t.nodes) + 1
        nodes1 == Append(t.nodes, new_node)
    IN IF t.tree_root = NULL
       THEN [tree_root |-> id, nodes |-> nodes1]
       ELSE LET prev_node == FindInsertParent(t.nodes, t.tree_root, chan_freq)
            IN [t EXCEPT !.nodes =
                   [nodes1 EXCEPT ![prev_node].left_child = id]]

\* t: [tree_root, nodes]
dfs_insert_node_into_bstree_for_freq(t, chan_freq, bandwidth) ==
    LET new_node == dfs_init_precac_tree_node_for_freq(chan_freq, bandwidth)
        id == Len(t.nodes) + 1
        nodes1 == Append(t.nodes, new_node)
    IN IF t.tree_root = NULL
       THEN [tree_root |-> id, nodes |-> nodes1]
       ELSE LET prev_node == FindInsertParent(t.nodes, t.tree_root, chan_freq)
            IN IF chan_freq < t.nodes[prev_node].ch_freq
               THEN [t EXCEPT !.nodes =
                        [nodes1 EXCEPT ![prev_node].left_child = id]]
               ELSE [t EXCEPT !.nodes =
                        [nodes1 EXCEPT ![prev_node].right_child = id]]

RECURSIVE InsertLevel(_, _, _, _, _, _)
InsertLevel(t, ch_freq, offset, step, boundary_offset, bandwidth) ==
    IF offset < boundary_offset
    THEN InsertLevel(dfs_insert_node_into_bstree_for_freq(
                         t, ch_freq + offset, bandwidth),
                     ch_freq, offset + step, step, boundary_offset, bandwidth)
    ELSE t

RECURSIVE CreateLevels(_, _, _, _)
CreateLevels(t, ch_freq, i, bandwidth) ==
    IF i > TREE_DEPTH THEN t
    ELSE LET offset == initial_and_next_offsets[i][1]
             step == initial_and_next_offsets[i][2]
             top_lvl_step == initial_and_next_offsets[1][2]
         IN CreateLevels(InsertLevel(t, ch_freq, offset, step,
                                     offset + top_lvl_step, bandwidth),
                         ch_freq, i + 1, bandwidth \div 2)

dfs_create_precac_tree_for_freq(ch_freq) ==
    CreateLevels([tree_root |-> NULL, nodes |-> <<>>], ch_freq, 1,
                 DFS_CHWIDTH_80_VAL)

(***************************************************************************)
(* Tree queries and mutators (the input is a 20 MHz sub-channel).          *)
(***************************************************************************)
RECURSIVE dfs_is_tree_node_marked_as_cac_for_freq(_, _, _)
dfs_is_tree_node_marked_as_cac_for_freq(nodes, curr_node, freq) ==
    IF curr_node = NULL THEN FALSE
    ELSE IF nodes[curr_node].n_caced_subchs = 0 THEN FALSE
    ELSE IF nodes[curr_node].ch_freq = freq
         THEN nodes[curr_node].n_caced_subchs # 0
    ELSE dfs_is_tree_node_marked_as_cac_for_freq(
             nodes, dfs_descend_precac_tree_for_freq(nodes, curr_node, freq),
             freq)

RECURSIVE MarkCacWalk(_, _, _)
MarkCacWalk(nodes, curr_node, chan_freq) ==
    IF curr_node = NULL THEN nodes
    ELSE LET n == nodes[curr_node]
             nodes1 == IF n.n_caced_subchs < N_SUBCHS_FOR_BANDWIDTH(n.bandwidth)
                       THEN [nodes EXCEPT
                               ![curr_node].n_caced_subchs = U8(@ + 1)]
                       ELSE nodes
         IN MarkCacWalk(nodes1,
                dfs_descend_precac_tree_for_freq(nodes, curr_node, chan_freq),
                chan_freq)

\* variant: the walk without the "already marked" early return
MarkCacDoneUnchecked(precac_entry, chan_freq) ==
    IF precac_entry.tree_root = NULL THEN precac_entry
    ELSE [precac_entry EXCEPT !.nodes =
             MarkCacWalk(precac_entry.nodes, precac_entry.tree_root, chan_freq)]

dfs_mark_tree_node_as_cac_done_for_freq(precac_entry, chan_freq) ==
    IF precac_entry.tree_root = NULL THEN precac_entry
    ELSE IF dfs_is_tree_node_marked_as_cac_for_freq(
                precac_entry.nodes, precac_entry.tree_root, chan_freq)
         THEN precac_entry
    ELSE [precac_entry EXCEPT !.nodes =
             MarkCacWalk(precac_entry.nodes, precac_entry.tree_root, chan_freq)]

RECURSIVE UnmarkCacWalk(_, _, _)
UnmarkCacWalk(nodes, curr_node, chan_freq) ==
    IF curr_node = NULL THEN nodes
    ELSE IF nodes[curr_node].n_caced_subchs # 0
         THEN UnmarkCacWalk(
                  [nodes EXCEPT ![curr_node].n_caced_subchs = U8(@ - 1)],
                  dfs_descend_precac_tree_for_freq(nodes, curr_node, chan_freq),
                  chan_freq)
    ELSE nodes

\* variant: only the root counter is decremented
UnmarkCacDoneRootOnly(precac_entry, chan_freq) ==
    IF precac_entry.nodes[precac_entry.tree_root].n_caced_subchs # 0
    THEN [precac_entry EXCEPT
            !.nodes[precac_entry.tree_root].n_caced_subchs = U8(@ - 1)]
    ELSE precac_entry

dfs_unmark_tree_node_as_cac_done_for_freq(precac_entry, chan_freq) ==
    [precac_entry EXCEPT !.nodes =
        UnmarkCacWalk(precac_entry.nodes, precac_entry.tree_root, chan_freq)]

RECURSIVE MarkNolWalk(_, _, _)
MarkNolWalk(pcac, curr_node, freq) ==
    IF curr_node = NULL THEN pcac
    ELSE LET n == pcac.nodes[curr_node]
         IN IF n.n_nol_subchs < N_SUBCHS_FOR_BANDWIDTH(n.bandwidth)
            THEN LET p1 == [pcac EXCEPT
                              !.nodes[curr_node].n_nol_subchs = U8(@ + 1)]
                     p2 == IF freq = n.ch_freq /\ n.n_caced_subchs # 0
                           THEN dfs_unmark_tree_node_as_cac_done_for_freq(
                                    p1, freq)
                           ELSE p1
                 IN MarkNolWalk(p2,
                        dfs_descend_precac_tree_for_freq(
                            pcac.nodes, curr_node, freq),
                        freq)
            ELSE pcac

\* variant: the three counters of the path incremented without the
\* "n_nol_subchs < N_SUBCHS_FOR_BANDWIDTH" test
MarkNolUnclamped(pcac, freq) ==
    IF pcac.tree_root = NULL THEN pcac
    ELSE LET r == pcac.tree_root
             m == dfs_descend_precac_tree_for_freq(pcac.nodes, r, freq)
             l == dfs_descend_precac_tree_for_freq(pcac.nodes, m, freq)
             p1 == [pcac EXCEPT !.nodes[r].n_nol_subchs = U8(@ + 1),
                                !.nodes[m].n_nol_subchs = U8(@ + 1),
                                !.nodes[l].n_nol_subchs = U8(@ + 1)]
         IN IF pcac.nodes[l].n_caced_subchs # 0
            THEN dfs_unmark_tree_node_as_cac_done_for_freq(p1, freq)
            ELSE p1

dfs_mark_tree_node_as_nol_for_freq(pcac, freq) ==
    IF pcac.tree_root = NULL THEN pcac
    ELSE MarkNolWalk(pcac, pcac.tree_root, freq)

RECURSIVE UnmarkNolWalk(_, _, _)
UnmarkNolWalk(nodes, curr_node, chan_freq) ==
    IF curr_node = NULL THEN nodes
    ELSE IF nodes[curr_node].n_nol_subchs # 0
         THEN UnmarkNolWalk(
                  [nodes EXCEPT ![curr_node].n_nol_subchs = U8(@ - 1)],
                  dfs_descend_precac_tree_for_freq(nodes, curr_node, chan_freq),
                  chan_freq)
    ELSE nodes

\* variant: only the root counter is decremented
UnmarkNolRootOnly(precac_entry, chan_freq) ==
    IF precac_entry.nodes[precac_entry.tree_root].n_nol_subchs # 0
    THEN [precac_entry EXCEPT
            !.nodes[precac_entry.tree_root].n_nol_subchs = U8(@ - 1)]
    ELSE precac_entry

dfs_unmark_tree_node_as_nol_for_freq(precac_entry, chan_freq) ==
    IF precac_entry.tree_root = NULL THEN precac_entry
    ELSE [precac_entry EXCEPT !.nodes =
             UnmarkNolWalk(precac_entry.nodes, precac_entry.tree_root,
                           chan_freq)]

(***************************************************************************)
(* Forest operations: the entry of a frequency is the first one whose      *)
(* 80 MHz range contains it.                                               *)
(***************************************************************************)
U16(x) == x % UINT16_MOD

RECURSIVE FindEntry(_, _, _)
FindEntry(list, i, freq) ==
    IF i > Len(list) THEN 0
    ELSE IF IS_WITHIN_RANGE(freq, list[i].vht80_ch_freq, VHT80_FREQ_OFFSET)
         THEN i
    ELSE FindEntry(list, i + 1, freq)

\* sub-channels of (pri_ch_freq, sec_ch_freq, ch_width); <<>> for a bad width
\* lists only the lower sub-channel of a channel wider than 20 MHz
SubChannelsLowerOnly(pri_ch_freq, sec_ch_freq, ch_width) ==
    CASE ch_width = "CH_WIDTH_20MHZ" -> <<pri_ch_freq>>
      [] OTHER -> <<U16(pri_ch_freq - DFS_5GHZ_NEXT_CHAN_FREQ_OFFSET)>>

SubChannelsOf(pri_ch_freq, sec_ch_freq, ch_width) ==
    CASE ch_width = "CH_WIDTH_20MHZ" -> <<pri_ch_freq>>
      [] ch_width = "CH_WIDTH_40MHZ" ->
           <<U16(pri_ch_freq - DFS_5GHZ_NEXT_CHAN_FREQ_OFFSET),
             U16(pri_ch_freq + DFS_5GHZ_NEXT_CHAN_FREQ_OFFSET)>>
      [] ch_width = "CH_WIDTH_80MHZ" ->
           <<U16(pri_ch_freq - DFS_5GHZ_2ND_CHAN_FREQ_OFFSET),
             U16(pri_ch_freq - DFS_5GHZ_NEXT_CHAN_FREQ_OFFSET),
             U16(pri_ch_freq + DFS_5GHZ_NEXT_CHAN_FREQ_OFFSET),
             U16(pri_ch_freq + DFS_5GHZ_2ND_CHAN_FREQ_OFFSET)>>
      [] ch_width = "CH_WIDTH_80P80MHZ" ->
           <<U16(pri_ch_freq - DFS_5GHZ_2ND_CHAN_FREQ_OFFSET),
             U16(pri_ch_freq - DFS_5GHZ_NEXT_CHAN_FREQ_OFFSET),
             U16(pri_ch_freq + DFS_5GHZ_NEXT_CHAN_FREQ_OFFSET),
             U16(pri_ch_freq + DFS_5GHZ_2ND_CHAN_FREQ_OFFSET),
             U16(sec_ch_freq - DFS_5GHZ_2ND_CHAN_FREQ_OFFSET),
             U16(sec_ch_freq - DFS_5GHZ_NEXT_CHAN_FREQ_OFFSET),
             U16(sec_ch_freq + DFS_5GHZ_NEXT_CHAN_FREQ_OFFSET),
             U16(sec_ch_freq + DFS_5GHZ_2ND_CHAN_FREQ_OFFSET)>>
      [] ch_width = "CH_WIDTH_160MHZ" ->
           <<U16(pri_ch_freq - DFS_5GHZ_4TH_CHAN_FREQ_OFFSET),
             U16(pri_ch_freq - DFS_5GHZ_3RD_CHAN_FREQ_OFFSET),
             U16(pri_ch_freq - DFS_5GHZ_2ND_CHAN_FREQ_OFFSET),
             U16(pri_ch_freq - DFS_5GHZ_NEXT_CHAN_FREQ_OFFSET),
             U16(pri_ch_freq + DFS_5GHZ_NEXT_CHAN_FREQ_OFFSET),
             U16(pri_ch_freq + DFS_5GHZ_2ND_CHAN_FREQ_OFFSET),
             U16(pri_ch_freq + DFS_5GHZ_3RD_CHAN_FREQ_OFFSET),
             U16(pri_ch_freq + DFS_5GHZ_4TH_CHAN_FREQ_OFFSET)>>
      [] OTHER -> <<>>

RECURSIVE MarkDoneChannels(_, _, _)
MarkDoneChannels(list, channels, i) ==
    IF i > Len(channels) THEN list
    ELSE LET e == FindEntry(list, 1, channels[i])
         IN MarkDoneChannels(
                IF e = 0 THEN list
                ELSE [list EXCEPT ![e] =
                        dfs_mark_tree_node_as_cac_done_for_freq(
                            @, channels[i])],
                channels, i + 1)

dfs_mark_precac_done_for_freq(list, pri_ch_freq, sec_ch_freq, ch_width) ==
    IF pri_ch_freq = 0 THEN list
    ELSE IF Len(list) = 0 THEN list
    ELSE MarkDoneChannels(list,
             SubChannelsOf(pri_ch_freq, sec_ch_freq, ch_width), 1)

RECURSIVE MarkNolChannels(_, _, _)
MarkNolChannels(list, freq_lst, i) ==
    IF i > Len(freq_lst) THEN list
    ELSE LET e == FindEntry(list, 1, freq_lst[i])
         IN MarkNolChannels(
                IF e = 0 THEN list
                ELSE [list EXCEPT ![e] =
                        dfs_mark_tree_node_as_nol_for_freq(@, freq_lst[i])],
                freq_lst, i + 1)

\* the forest update of the radar handler
dfs_mark_precac_nol_for_freq(list, freq_lst) ==
    IF Len(list) = 0 THEN list ELSE MarkNolChannels(list, freq_lst, 1)

\* the forest update of the NOL expiry handler
dfs_unmark_precac_nol_for_freq(list, chan_freq) ==
    LET e == FindEntry(list, 1, chan_freq)
    IN IF e = 0 THEN list
       ELSE [list EXCEPT ![e] =
                dfs_unmark_tree_node_as_nol_for_freq(@, chan_freq)]

(***************************************************************************)
(* CAC-done query of a 20/40/80 MHz channel given by its centre.           *)
(***************************************************************************)
RECURSIVE CacStatusWalk(_, _, _, _)
CacStatusWalk(nodes, node, chan_freq, n_cur_lvl_subchs) ==
    IF node = NULL THEN FALSE
    ELSE IF nodes[node].ch_freq = chan_freq
         THEN nodes[node].n_caced_subchs = n_cur_lvl_subchs
    ELSE CacStatusWalk(nodes,
             dfs_descend_precac_tree_for_freq(nodes, node, chan_freq),
             chan_freq, n_cur_lvl_subchs \div 2)

dfs_find_cac_status_for_chan_for_freq(precac_entry, chan_freq) ==
    CacStatusWalk(precac_entry.nodes, precac_entry.tree_root, chan_freq,
                  N_SUBCHANS_FOR_80BW)

\* variant: the query looks in the first tree of the list only
CacStatusInFirstTree(list, chan_freq) ==
    IF Len(list) = 0 THEN FALSE
    ELSE dfs_find_cac_status_for_chan_for_freq(list[1], chan_freq)

dfs_is_precac_done_on_ht20_40_80_chan_for_freq(list, chan_freq) ==
    LET e == FindEntry(list, 1, chan_freq)
    IN IF e = 0 THEN FALSE
       ELSE dfs_find_cac_status_for_chan_for_freq(list[e], chan_freq)

(***************************************************************************)
(* Forest initialisation from the regulatory channel list.                 *)
(***************************************************************************)
\* 80 MHz centre (dfs_ch_mhz_freq_seg1) of every VHT80 DFS channel that the
\* regulatory collaborator advertises, one per primary 20 MHz channel
RegDfsVht80Seg1 == <<5290, 5290, 5530, 5530>>

RECURSIVE InitListFrom(_, _, _)
\* primary 20 MHz frequency (dfs_ch_freq) of the same channels: the 20 MHz
\* DFS channels the regulatory collaborator advertises
RegDfsChanFreq == <<5260, 5280, 5500, 5520>>

InitListFrom(list, chans, i) ==
    IF i > Len(chans) THEN list
    ELSE LET pri_chan_cfreq == chans[i]
             found == \E k \in 1..Len(list) :
                          list[k].vht80_ch_freq = pri_chan_cfreq
             t == dfs_create_precac_tree_for_freq(pri_chan_cfreq)
         IN InitListFrom(
                IF ~found /\ pri_chan_cfreq # 0
                THEN Append(list, [vht80_ch_freq |-> pri_chan_cfreq,
                                   tree_root |-> t.tree_root,
                                   nodes |-> t.nodes])
                ELSE list,
                chans, i + 1)

dfs_init_precac_list == InitListFrom(<<>>, RegDfsVht80Seg1, 1)

\* the regulatory domains: only the ETSI one supports preCAC
DFS_ETSI_DOMAIN == "DFS_ETSI_DOMAIN"

\* what utils_get_dfsdomain may answer: ETSI or another domain
DfsDomains == {DFS_ETSI_DOMAIN, "other"}

\* dfs_init_precac_list called with the forest list in the domain dfsdomain:
\* outside ETSI it returns at once, in ETSI it starts from an empty list
InitPrecacListIn(list, dfsdomain) ==
    IF dfsdomain # DFS_ETSI_DOMAIN THEN list
    ELSE InitListFrom(<<>>, RegDfsVht80Seg1, 1)

(***************************************************************************)
(* Selection of the next preCAC channel.  The serving channel curchan is   *)
(* [mode, seg1, seg2]: mode "20", "40", "80", "80_80", "160" (or "none"),  *)
(* seg1/seg2 the dfs_ch_mhz_freq_seg1/2 of the channel.                    *)
(***************************************************************************)
RECURSIVE dfs_is_pcac_required_for_freq(_, _, _)
dfs_is_pcac_required_for_freq(nodes, node, freq) ==
    IF node = NULL THEN FALSE
    ELSE IF nodes[node].ch_freq = freq
         THEN ~(\/ nodes[node].n_caced_subchs =
                      N_SUBCHS_FOR_BANDWIDTH(nodes[node].bandwidth)
                \/ nodes[node].n_nol_subchs # 0)
    ELSE dfs_is_pcac_required_for_freq(
             nodes, dfs_descend_precac_tree_for_freq(nodes, node, freq), freq)

dfs_get_num_cur_subchans_in_node_freq(curchan, nodes, node) ==
    LET exclude_pri_ch_freq == curchan.seg1
        exclude_sec_ch_freq ==
            IF curchan.mode = "160"
            THEN IF curchan.seg2 < exclude_pri_ch_freq
                 THEN U16(curchan.seg2 - DFS_160MHZ_SECSEG_CHAN_OFFSET)
                 ELSE U16(curchan.seg2 + DFS_160MHZ_SECSEG_CHAN_OFFSET)
            ELSE curchan.seg2
        chwidth_val == IF curchan.mode = "20" THEN DFS_CHWIDTH_20_VAL
                       ELSE IF curchan.mode = "40" THEN DFS_CHWIDTH_40_VAL
                       ELSE DFS_CHWIDTH_80_VAL
        n == nodes[node]
        InNode(f) == /\ IS_WITHIN_RANGE(f, n.ch_freq, n.bandwidth \div 2)
                     /\ dfs_is_pcac_required_for_freq(nodes, node, f)
    IN U8((IF InNode(exclude_pri_ch_freq)
           THEN N_SUBCHS_FOR_BANDWIDTH(chwidth_val) ELSE 0)
          + (IF InNode(exclude_sec_ch_freq)
             THEN N_SUBCHS_FOR_BANDWIDTH(chwidth_val) ELSE 0))

dfs_is_cac_needed_for_bst_node_for_freq(curchan, nodes, node, req_bandwidth) ==
    IF node = NULL THEN FALSE
    ELSE LET n == nodes[node]
             n_excluded_subchs ==
                 dfs_get_num_cur_subchans_in_node_freq(curchan, nodes, node)
             n_subchs_for_req_bw == U8(N_SUBCHS_FOR_BANDWIDTH(req_bandwidth))
             n_allowed_subchs ==
                 U8(n.n_valid_subchs - (n.n_nol_subchs + n_excluded_subchs))
         IN ~(\/ n_allowed_subchs < n_subchs_for_req_bw
              \/ n.n_caced_subchs + n.n_nol_subchs + n_excluded_subchs
                     = n.n_valid_subchs)

RECURSIVE FindChWalk(_, _, _, _)
FindChWalk(curchan, nodes, curr_node, req_bw) ==
    IF curr_node = NULL THEN 0
    ELSE IF nodes[curr_node].bandwidth = req_bw
         THEN IF dfs_is_cac_needed_for_bst_node_for_freq(
                     curchan, nodes, curr_node, req_bw)
              THEN nodes[curr_node].ch_freq
              ELSE 0
    ELSE IF ~dfs_is_cac_needed_for_bst_node_for_freq(
                 curchan, nodes, nodes[curr_node].left_child, req_bw)
         THEN FindChWalk(curchan, nodes, nodes[curr_node].right_child, req_bw)
    ELSE FindChWalk(curchan, nodes, nodes[curr_node].left_child, req_bw)

dfs_find_ieee_ch_from_precac_tree_for_freq(curchan, nodes, root, req_bw) ==
    IF ~dfs_is_cac_needed_for_bst_node_for_freq(curchan, nodes, root, req_bw)
    THEN 0
    ELSE FindChWalk(curchan, nodes, root, req_bw)

RECURSIVE GetChanFrom(_, _, _, _)
GetChanFrom(list, curchan, i, bw) ==
    IF i > Len(list) THEN 0
    ELSE LET ieee_chan_freq ==
                 dfs_find_ieee_ch_from_precac_tree_for_freq(
                     curchan, list[i].nodes, list[i].tree_root, bw)
         IN IF ieee_chan_freq # 0 THEN ieee_chan_freq
            ELSE GetChanFrom(list, curchan, i + 1, bw)

\* the exclusion arguments are only logged
dfs_get_ieeechan_for_precac_for_freq(list, curchan, exclude_pri_ch_freq, exclude_sec_ch_freq, bw) ==
    GetChanFrom(list, curchan, 1, bw)

(***************************************************************************)
(* Inputs of the calls.                                                    *)
(***************************************************************************)
\* 20 MHz sub-channels of the first band (centre 5290)
Leaves1 == {5260, 5280, 5300, 5320}

\* (pri_ch_freq, sec_ch_freq, ch_width) of the CAC completions: every width
\* on the first band; the second band (centre 5530) as a whole
DoneArgs1 ==
    {<<f, 0, "CH_WIDTH_20MHZ">> : f \in Leaves1}
    \cup {<<5270, 0, "CH_WIDTH_40MHZ">>, <<5310, 0, "CH_WIDTH_40MHZ">>,
          <<5290, 0, "CH_WIDTH_80MHZ">>, <<5250, 0, "CH_WIDTH_160MHZ">>,
          <<5290, 5530, "CH_WIDTH_80P80MHZ">>}
DoneArgs2 == {<<5530, 0, "CH_WIDTH_80MHZ">>}

\* radar reports: the list of 20 MHz sub-channels hit
NolArgs1 == {<<f>> : f \in Leaves1} \cup {<<5300, 5320>>}

\* the calls explored together with the channel selection
DoneArgsSel ==
    {<<5260, 0, "CH_WIDTH_20MHZ">>, <<5300, 0, "CH_WIDTH_20MHZ">>,
     <<5270, 0, "CH_WIDTH_40MHZ">>, <<5530, 0, "CH_WIDTH_80MHZ">>,
     <<5290, 5530, "CH_WIDTH_80P80MHZ">>}
NolArgsSel == {<<5260>>, <<5280>>}
LeavesSel == {5260, 5280}

\* serving channels: 20, 40, 80 MHz in the first band, 80 MHz in the second
\* band and outside the forest, 80+80 over both bands, 160 MHz over the
\* first band (primary segment 5210, centre 5250)
Curchans ==
    {[mode |-> "20", seg1 |-> 5260, seg2 |-> 0],
     [mode |-> "40", seg1 |-> 5270, seg2 |-> 0],
     [mode |-> "80", seg1 |-> 5290, seg2 |-> 0],
     [mode |-> "80", seg1 |-> 5530, seg2 |-> 0],
     [mode |-> "80", seg1 |-> 5210, seg2 |-> 0],
     [mode |-> "80_80", seg1 |-> 5290, seg2 |-> 5530],
     [mode |-> "160", seg1 |-> 5210, seg2 |-> 5250]}

\* (exclude_pri_ch_freq, exclude_sec_ch_freq, bandwidth) of a selection
SelectArgs ==
    {<<p, 0, bw>> : p \in {5290, 5530},
                    bw \in {DFS_CHWIDTH_20_VAL, DFS_CHWIDTH_40_VAL,
                            DFS_CHWIDTH_80_VAL}}
    \cup {<<5290, 5530, DFS_CHWIDTH_80_VAL>>}

NoCall == [op |-> "none", args |-> <<>>, ret |-> 0]

\* enum ocac_status_type and the initial values of dfs_reset_agile_config
OCAC_SUCCESS == 0
OCAC_RESET == 1
OCAC_CANCEL == 2
PCAC_DFS_INDEX_ZERO == 0
PCAC_TIMER_NOT_RUNNING == 0
PRECAC_NOT_STARTED == FALSE
VHT160_FREQ_DIFF == 80
NoChan == [mode |-> "none", seg1 |-> 0, seg2 |-> 0]
NoWatch == [stage |-> "none", freq |-> 0]

\* the wlan_dfs fields followed, after dfs_zero_cac_attach, in the regulatory
\* domain dfsdomain (what utils_get_dfsdomain answers)
InitDfs(dfsdomain) ==
    [dfsdomain |-> dfsdomain,
     dfs_psoc_idx |-> 0,
     target_type |-> "unread",
     dfs_precac_timeout_override |-> -1,
     dfs_legacy_precac_ucfg |-> FALSE,
     dfs_agile_precac_ucfg |-> FALSE,
     dfs_precac_primary_freq_mhz |-> 0,
     dfs_precac_secondary_freq_mhz |-> 0,
     dfs_precac_chwidth |-> "CH_WIDTH_INVALID",
     dfs_agile_precac_freq_mhz |-> 0,
     dfs_autoswitch_des_chan_freq |-> 0,
     dfs_autoswitch_des_mode |-> "none",
     dfs_precac_inter_chan_freq |-> 0,
     dfs_defer_precac_channel_change |-> 0]

\* the other radio of the SoC, dfs_priv[1].dfs: its forest, its wlan_dfs
\* fields and its serving channel; here a radio that has no forest
NoPeer ==
    [list |-> <<>>,
     dfs |-> [InitDfs(DFS_ETSI_DOMAIN) EXCEPT !.dfs_psoc_idx = 1],
     curchan |-> NoChan]

\* the dfs_soc_priv_obj fields followed, after dfs_reset_agile_config;
\* peer is the radio of dfs_priv[] that the handler was not called on
InitSoc ==
    [peer |-> NoPeer,
     cur_precac_dfs_index |-> PCAC_DFS_INDEX_ZERO,
     dfs_precac_timer_running |-> PCAC_TIMER_NOT_RUNNING,
     precac_state_started |-> PRECAC_NOT_STARTED,
     ocac_status |-> OCAC_SUCCESS,
     agile_precac_active |-> <<FALSE, FALSE>>]

\* no handler is under way and the lock is free
NoHolder == "free"
Contexts == {"timer", "radar", "nol", "operator"}
Idle == [pc |-> "idle", op |-> "none", channels |-> <<>>, i |-> 0, running |-> 0]

Init ==
    /\ ctx = [c \in Contexts |-> Idle]
    /\ precac_list_lock = NoHolder
    /\ dfs_precac_list = dfs_init_precac_list
    /\ dfs_curchan = NoChan
    /\ last = NoCall
    /\ pre = dfs_init_precac_list
    /\ nevents = 0
    /\ watch = NoWatch
    /\ freed = <<>>
    /\ dfs = InitDfs(DFS_ETSI_DOMAIN)
    /\ dfs_soc_obj = InitSoc

(***************************************************************************)
(* The forest effect of each entry point.                                  *)
(***************************************************************************)
MarkPrecacDone(a) ==
    dfs_precac_list' =
        dfs_mark_precac_done_for_freq(dfs_precac_list, a[1], a[2], a[3])

MarkPrecacNol(freq_lst) ==
    dfs_precac_list' = dfs_mark_precac_nol_for_freq(dfs_precac_list, freq_lst)

UnmarkPrecacNol(chan_freq) ==
    dfs_precac_list' =
        dfs_unmark_precac_nol_for_freq(dfs_precac_list, chan_freq)

(***************************************************************************)
(* Spec: every sequence of CAC completions, radar reports and NOL expiries *)
(* on both bands.                                                          *)
(***************************************************************************)
MarkDone ==
    /\ \E a \in DoneArgs1 \cup DoneArgs2 : MarkPrecacDone(a)
    /\ UNCHANGED <<dfs_curchan, last, pre, nevents, ctl>>

MarkNol ==
    /\ \E l \in NolArgs1 : MarkPrecacNol(l)
    /\ UNCHANGED <<dfs_curchan, last, pre, nevents, ctl>>

UnmarkNol ==
    /\ \E f \in Leaves1 : UnmarkPrecacNol(f)
    /\ UNCHANGED <<dfs_curchan, last, pre, nevents, ctl>>

Next == MarkDone \/ MarkNol \/ UnmarkNol

Spec == Init /\ [][Next]_vars

(***************************************************************************)
(* SpecHist: the same calls, remembering the last call and the forest it   *)
(* started from.                                                           *)
(***************************************************************************)
Remember(op, args) ==
    /\ nevents < MaxHistEvents
    /\ nevents' = nevents + 1
    /\ last' = [op |-> op, args |-> args, ret |-> 0]
    /\ pre' = dfs_precac_list
    /\ UNCHANGED <<dfs_curchan, ctl>>

MarkDoneH ==
    \E a \in DoneArgs1 : MarkPrecacDone(a) /\ Remember("mark_done", a)

MarkNolH ==
    \E l \in NolArgs1 : MarkPrecacNol(l) /\ Remember("mark_nol", l)

UnmarkNolH ==
    \E f \in Leaves1 : UnmarkPrecacNol(f) /\ Remember("unmark_nol", <<f>>)

NextHist == MarkDoneH \/ MarkNolH \/ UnmarkNolH

SpecHist == Init /\ [][NextHist]_vars

(***************************************************************************)
(* SpecSelect: a bounded number of forest events, changes of the serving   *)
(* channel, and selections of the next preCAC channel.                     *)
(***************************************************************************)
Event ==
    /\ nevents < MaxEvents
    /\ nevents' = nevents + 1
    /\ last' = NoCall
    /\ UNCHANGED <<dfs_curchan, pre, ctl>>

MarkDoneS == \E a \in DoneArgsSel : MarkPrecacDone(a) /\ Event

MarkNolS == \E l \in NolArgsSel : MarkPrecacNol(l) /\ Event

UnmarkNolS == \E f \in LeavesSel : UnmarkPrecacNol(f) /\ Event

SetCurchan ==
    /\ \E c \in Curchans : dfs_curchan' = c
    /\ last' = NoCall
    /\ UNCHANGED <<dfs_precac_list, pre, nevents, ctl>>

Select ==
    /\ \E a \in SelectArgs :
          last' = [op |-> "select", args |-> a,
                   ret |-> dfs_get_ieeechan_for_precac_for_freq(
                               dfs_precac_list, dfs_curchan, a[1], a[2], a[3])]
    /\ UNCHANGED <<dfs_precac_list, dfs_curchan, pre, nevents, ctl>>

NextSelect == MarkDoneS \/ MarkNolS \/ UnmarkNolS \/ SetCurchan \/ Select

SpecSelect == Init /\ [][NextSelect]_vars

(***************************************************************************)
(* SpecRevoke: the calls on the first band, following one sub-channel from *)
(* the radar report that hits it in a fully CAC-done band, through the     *)
(* expiry of its NOL entry, until a CAC completion covers it again.        *)
(* watch.stage is "none", "radar" (reported, NOL entry not yet expired) or *)
(* "expired".                                                              *)
(***************************************************************************)
SeqRange(s) == {s[k] : k \in 1..Len(s)}

\* every node of the band of f is fully CAC done and none is in NOL
BandFullyDone(list, f) ==
    LET e == list[FindEntry(list, 1, f)]
    IN \A k \in 1..Len(e.nodes) :
          /\ e.nodes[k].n_caced_subchs
                 = N_SUBCHS_FOR_BANDWIDTH(e.nodes[k].bandwidth)
          /\ e.nodes[k].n_nol_subchs = 0

MarkDoneW ==
    /\ \E a \in DoneArgs1 :
          /\ MarkPrecacDone(a)
          /\ watch' = IF watch.freq \in SeqRange(SubChannelsOf(a[1], a[2], a[3]))
                      THEN NoWatch ELSE watch
    /\ UNCHANGED <<dfs_curchan, last, pre, nevents, freed, conc, dfs, dfs_soc_obj>>

MarkNolW ==
    /\ \E l \in NolArgs1 :
          /\ MarkPrecacNol(l)
          /\ \E f \in SeqRange(l) :
                watch' =
                    IF watch.stage = "none" /\ BandFullyDone(dfs_precac_list, f)
                    THEN [stage |-> "radar", freq |-> f]
                    ELSE IF watch.stage = "expired" /\ watch.freq \in SeqRange(l)
                    THEN [watch EXCEPT !.stage = "radar"]
                    ELSE watch
    /\ UNCHANGED <<dfs_curchan, last, pre, nevents, freed, conc, dfs, dfs_soc_obj>>

UnmarkNolW ==
    /\ \E f \in Leaves1 :
          /\ UnmarkPrecacNol(f)
          /\ watch' = IF watch.stage = "radar" /\ watch.freq = f
                      THEN [watch EXCEPT !.stage = "expired"] ELSE watch
    /\ UNCHANGED <<dfs_curchan, last, pre, nevents, freed, conc, dfs, dfs_soc_obj>>

NextRevoke == MarkDoneW \/ MarkNolW \/ UnmarkNolW

SpecRevoke == Init /\ [][NextRevoke]_vars

(***************************************************************************)
(* SpecTree: the construction of the tree of one band, for every 80 MHz    *)
(* centre of the 5 GHz range.                                              *)
(***************************************************************************)
FirstCentre == 5170

Centres == {FirstCentre + 5 * k : k \in 0..MaxCentres}

CreateTree ==
    /\ \E c \in Centres :
          last' = [op |-> "create_tree", args |-> <<c>>,
                   ret |-> dfs_create_precac_tree_for_freq(c)]
    /\ UNCHANGED <<dfs_precac_list, dfs_curchan, pre, nevents, ctl>>

NextTree == CreateTree

SpecTree == Init /\ [][NextTree]_vars

(***************************************************************************)
(* Teardown of the forest.  The heap of one tree is followed node by node: *)
(* alive is the set of nodes not yet freed, frees the nodes in the order   *)
(* they are freed, bad is set when a freed node is read, written or freed  *)
(* again.                                                                  *)
(***************************************************************************)
\* takes the node itself for the leftmost leaf below it
LeftmostIsNode(nodes, alive, node) == [node |-> node, bad |-> FALSE]

\* [node, bad]: the leftmost leaf below node, bad when the walk touches a
\* freed node
RECURSIVE dfs_find_leftmost_leaf_of_precac_tree(_, _, _)
dfs_find_leftmost_leaf_of_precac_tree(nodes, alive, node) ==
    IF node = NULL THEN [node |-> NULL, bad |-> FALSE]
    ELSE IF node \notin alive THEN [node |-> node, bad |-> TRUE]
    ELSE IF nodes[node].left_child = NULL THEN [node |-> node, bad |-> FALSE]
    ELSE dfs_find_leftmost_leaf_of_precac_tree(
             nodes, alive, nodes[node].left_child)

\* the while loop of dfs_free_precac_tree_nodes; st is [nodes, alive,
\* root_node, left_most_leaf, frees, bad]
RECURSIVE FreeLoop(_, _)
FreeLoop(st, fuel) ==
    IF st.root_node = NULL \/ st.bad \/ fuel = 0 THEN st
    ELSE IF st.root_node \notin st.alive THEN [st EXCEPT !.bad = TRUE]
    ELSE LET root_node == st.root_node
             right == st.nodes[root_node].right_child
             touched == right # NULL /\ st.left_most_leaf \notin st.alive
             nodes1 == IF right # NULL /\ ~touched
                       THEN [st.nodes EXCEPT
                                ![st.left_most_leaf].left_child = right]
                       ELSE st.nodes
             lml == IF right # NULL /\ ~touched
                    THEN dfs_find_leftmost_leaf_of_precac_tree(
                             nodes1, st.alive, st.left_most_leaf)
                    ELSE [node |-> st.left_most_leaf, bad |-> touched]
         IN IF lml.bad THEN [st EXCEPT !.bad = TRUE]
            ELSE IF lml.node = NULL THEN [st EXCEPT !.nodes = nodes1]
            ELSE FreeLoop([nodes |-> nodes1,
                           alive |-> st.alive \ {root_node},
                           root_node |-> nodes1[root_node].left_child,
                           left_most_leaf |-> lml.node,
                           frees |-> Append(st.frees, root_node),
                           bad |-> FALSE],
                          fuel - 1)

\* returns [nodes, alive, root_node, left_most_leaf, frees, bad] at the
\* return of the function (root_node is NULL when the loop ran to its end)
dfs_free_precac_tree_nodes(precac_entry) ==
    LET all == 1..Len(precac_entry.nodes)
        start == [nodes |-> precac_entry.nodes, alive |-> all,
                  root_node |-> precac_entry.tree_root,
                  left_most_leaf |-> NULL, frees |-> <<>>, bad |-> FALSE]
    IN IF precac_entry.tree_root = NULL THEN start
       ELSE LET lml == dfs_find_leftmost_leaf_of_precac_tree(
                           precac_entry.nodes, all, precac_entry.tree_root)
            IN FreeLoop([start EXCEPT !.left_most_leaf = lml.node],
                        MaxFreeSteps)

\* TAILQ_FOREACH_SAFE over the list: [list, log], log holding for every
\* entry removed and freed what the freeing of its tree did
RECURSIVE DeinitFrom(_, _)
DeinitFrom(list, log) ==
    IF list = <<>> THEN [list |-> list, log |-> log]
    ELSE LET r == dfs_free_precac_tree_nodes(Head(list))
         IN DeinitFrom(Tail(list),
                       Append(log, [vht80_ch_freq |-> Head(list).vht80_ch_freq,
                                    n_nodes |-> Len(Head(list).nodes),
                                    alive |-> r.alive,
                                    frees |-> r.frees,
                                    bad |-> r.bad,
                                    returned_at |-> r.root_node]))

dfs_deinit_precac_list(list) == DeinitFrom(list, <<>>)

(***************************************************************************)
(* SpecFree: a bounded number of forest events, then teardown              *)
(* (dfs_zero_cac_detach) or reset (dfs_reset_precaclists) of the forest.   *)
(***************************************************************************)
Deinit ==
    /\ dfs_precac_list' = dfs_deinit_precac_list(dfs_precac_list).list
    /\ freed' = dfs_deinit_precac_list(dfs_precac_list).log
    /\ last' = [op |-> "deinit", args |-> <<>>, ret |-> 0]
    /\ pre' = dfs_precac_list
    /\ UNCHANGED <<dfs_curchan, nevents, watch, conc, dfs, dfs_soc_obj>>

ResetPrecacLists ==
    /\ dfs_precac_list' =
          InitPrecacListIn(dfs_deinit_precac_list(dfs_precac_list).list,
                           dfs.dfsdomain)
    /\ freed' = dfs_deinit_precac_list(dfs_precac_list).log
    /\ last' = [op |-> "reset", args |-> <<>>, ret |-> 0]
    /\ pre' = dfs_precac_list
    /\ UNCHANGED <<dfs_curchan, nevents, watch, conc, dfs, dfs_soc_obj>>

NextFree == MarkDoneS \/ MarkNolS \/ UnmarkNolS \/ Deinit \/ ResetPrecacLists

SpecFree == Init /\ [][NextFree]_vars

(***************************************************************************)
(* The preCAC timer, the auto-switch to the operator's channel and the     *)
(* handlers around them.  A handler works on s = [list, dfs, soc, out]:    *)
(* the forest, the two structures, and out, the sequence of what it has    *)
(* done that is seen outside (commands sent, forest calls made), in order. *)
(***************************************************************************)
\* the channels dfs_mlme_find_dot11_chan_for_freq knows, by primary
\* frequency and mode
Dot11Chans ==
    {[freq |-> 5180, mode |-> "80", seg1 |-> 5210, seg2 |-> 0, is_dfs |-> FALSE],
     [freq |-> 5745, mode |-> "80", seg1 |-> 5775, seg2 |-> 0, is_dfs |-> FALSE],
     [freq |-> 5260, mode |-> "80", seg1 |-> 5290, seg2 |-> 0, is_dfs |-> TRUE],
     [freq |-> 5500, mode |-> "80", seg1 |-> 5530, seg2 |-> 0, is_dfs |-> TRUE],
     [freq |-> 5260, mode |-> "40", seg1 |-> 5270, seg2 |-> 0, is_dfs |-> TRUE],
     [freq |-> 5260, mode |-> "20", seg1 |-> 5260, seg2 |-> 0, is_dfs |-> TRUE]}

NoDot11Chan == [freq |-> 0, mode |-> "none", seg1 |-> 0, seg2 |-> 0, is_dfs |-> FALSE]

\* the channel found, or NoDot11Chan when the lookup fails
dfs_mlme_find_dot11_chan_for_freq(freq, mode) ==
    IF \E c \in Dot11Chans : c.freq = freq /\ c.mode = mode
    THEN CHOOSE c \in Dot11Chans : c.freq = freq /\ c.mode = mode
    ELSE NoDot11Chan

dfs_is_precac_done(list, chan) ==
    IF chan.mode \in {"20", "40", "80"}
    THEN dfs_is_precac_done_on_ht20_40_80_chan_for_freq(list, chan.seg1)
    ELSE FALSE

dfs_is_legacy_precac_enabled(d) == d.dfs_legacy_precac_ucfg

\* dfs_fw_adfs_support_non_160 is taken as set
dfs_is_agile_precac_enabled(d) == d.dfs_agile_precac_ucfg

Sent(s, cmd, freq) == [s EXCEPT !.out = Append(@, [cmd |-> cmd, freq |-> freq])]

dfs_cancel_precac_timer(s) ==
    [s EXCEPT !.soc.dfs_precac_timer_running = 0]

\* the CSA without the reset of the auto-switch target
CsaKeepsTarget(s) ==
    Sent([s EXCEPT !.dfs.dfs_precac_inter_chan_freq =
                       s.dfs.dfs_autoswitch_des_chan_freq],
         "mlme_precac_chan_change_csa_for_freq",
         s.dfs.dfs_autoswitch_des_chan_freq)

dfs_precac_csa(s) ==
    LET des == s.dfs.dfs_autoswitch_des_chan_freq
        s1 == [s EXCEPT !.dfs.dfs_precac_inter_chan_freq = des]
        s2 == Sent(s1, "mlme_precac_chan_change_csa_for_freq", des)
    IN [s2 EXCEPT !.dfs.dfs_autoswitch_des_chan_freq = 0]

\* [s, ret]
dfs_precac_check_home_chan_change(s) ==
    LET chan == dfs_mlme_find_dot11_chan_for_freq(
                    s.dfs.dfs_autoswitch_des_chan_freq,
                    s.dfs.dfs_autoswitch_des_mode)
    IN IF chan = NoDot11Chan THEN [s |-> s, ret |-> FALSE]
       ELSE IF s.dfs.dfs_autoswitch_des_chan_freq # 0
               /\ dfs_is_precac_done(s.list, chan)
       THEN [s |-> [dfs_precac_csa(s) EXCEPT
                       !.soc.precac_state_started = FALSE],
             ret |-> TRUE]
       ELSE [s |-> s, ret |-> FALSE]

\* the end of the legacy branch of dfs_precac_timeout: r is what
\* dfs_precac_check_home_chan_change answered
ChannelChangeUnlessHome(r) ==
    IF ~r.ret THEN Sent(r.s, "dfs_mlme_channel_change_by_precac", 0)
    ELSE r.s

\* the legacy branch of dfs_precac_timeout
PrecacTimeoutLegacy(s) ==
    LET dfs_pcac_cfreq2 == s.dfs.dfs_precac_secondary_freq_mhz
        s1 == [s EXCEPT !.list = dfs_mark_precac_done_for_freq(
                                    s.list, dfs_pcac_cfreq2, 0,
                                    s.dfs.dfs_precac_chwidth)]
        s2 == Sent(s1, "dfs_mark_precac_done_for_freq", dfs_pcac_cfreq2)
    IN ChannelChangeUnlessHome(dfs_precac_check_home_chan_change(s2))

dfs_start_precac_timer_for_freq(s, precac_chan_freq) ==
    [s EXCEPT !.soc.dfs_precac_timer_running = 1]

\* the end of dfs_find_vht80_chan_for_precac_for_freq, once ieee_freq is
\* decided
StartPrecacOn(s0, cfreq_seg1_mhz, ieee_freq) ==
    IF ieee_freq # 0
    THEN dfs_start_precac_timer_for_freq(
             Sent([s0 EXCEPT
                      !.dfs.dfs_precac_secondary_freq_mhz = ieee_freq,
                      !.dfs.dfs_precac_primary_freq_mhz = cfreq_seg1_mhz],
                  "cfreq2",
                  IF ieee_freq = cfreq_seg1_mhz + VHT160_FREQ_DIFF
                  THEN (ieee_freq + cfreq_seg1_mhz) \div 2
                  ELSE ieee_freq),
             ieee_freq)
    ELSE [s0 EXCEPT !.dfs.dfs_precac_secondary_freq_mhz = 0]

\* chan_mode is WLAN_PHYMODE_11AC_VHT80 (the function returns at once for
\* any other mode); out receives the *cfreq2 handed back
dfs_find_vht80_chan_for_precac_for_freq(s, curchan, cfreq_seg1_mhz) ==
    LET s0 == [s EXCEPT !.dfs.dfs_precac_chwidth = "CH_WIDTH_80MHZ"]
    IN IF ~dfs_is_legacy_precac_enabled(s.dfs) THEN s0
       ELSE IF s.soc.dfs_precac_timer_running # 0
               /\ cfreq_seg1_mhz # s.dfs.dfs_precac_secondary_freq_mhz
       THEN StartPrecacOn(s0, cfreq_seg1_mhz,
                          s.dfs.dfs_precac_secondary_freq_mhz)
       ELSE StartPrecacOn(s0, cfreq_seg1_mhz,
                          dfs_get_ieeechan_for_precac_for_freq(
                              s.list, curchan, cfreq_seg1_mhz, 0,
                              DFS_CHWIDTH_80_VAL))

\* the legacy branch asking for the channel change whatever the segment
ReplanOnAnySegment(s, is_radar_found_on_secondary_seg, ap_cac_running) ==
    IF ap_cac_running
    THEN [dfs_cancel_precac_timer(s) EXCEPT
             !.dfs.dfs_defer_precac_channel_change = 1]
    ELSE Sent(dfs_cancel_precac_timer(s),
              "dfs_mlme_channel_change_by_precac", 0)

\* the legacy branch of dfs_mark_precac_nol_for_freq, after the forest
\* update, when the timer is running; ap_cac_running is what
\* dfs_is_ap_cac_timer_running answers
MarkPrecacNolLegacy(s, is_radar_found_on_secondary_seg, ap_cac_running) ==
    LET s1 == dfs_cancel_precac_timer(s)
    IN IF is_radar_found_on_secondary_seg # 0
       THEN IF ap_cac_running
            THEN [s1 EXCEPT !.dfs.dfs_defer_precac_channel_change = 1]
            ELSE Sent(s1, "dfs_mlme_channel_change_by_precac", 0)
       ELSE s1

\* the legacy branch of dfs_unmark_precac_nol_for_freq, after the forest
\* update, when the timer is not running
UnmarkPrecacNolLegacy(s, curchan, ap_cac_running) ==
    IF ap_cac_running
    THEN [s EXCEPT !.dfs.dfs_defer_precac_channel_change = 1]
    ELSE IF curchan.mode = "80"
    THEN IF dfs_get_ieeechan_for_precac_for_freq(
                s.list, curchan, curchan.seg1, 0, DFS_CHWIDTH_80_VAL) = 0
         THEN s
         ELSE Sent(s, "dfs_mlme_channel_change_by_precac", 0)
    ELSE s

(***************************************************************************)
(* Agile preCAC.  The SoC has NUM_DFS_PRIVS radios: a handler is called on  *)
(* one of them, whose forest and wlan_dfs fields are s.list and s.dfs; the *)
(* other one is s.soc.peer.  Except in SpecRadios the handlers are called  *)
(* on radio 0 only and radio 1 has no forest and is never active.          *)
(***************************************************************************)
NUM_DFS_PRIVS == 2

\* the chwidth of dfs_find_chwidth_and_center_chan_for_freq
dfs_find_chwidth_and_center_chan_for_freq(curchan) ==
    CASE curchan.mode = "20" -> "CH_WIDTH_20MHZ"
      [] curchan.mode = "40" -> "CH_WIDTH_40MHZ"
      [] curchan.mode = "80" -> "CH_WIDTH_80MHZ"
      [] curchan.mode = "80_80" -> "CH_WIDTH_80P80MHZ"
      [] curchan.mode = "160" -> "CH_WIDTH_160MHZ"
      [] OTHER -> "CH_WIDTH_INVALID"

dfs_find_agile_width(chwidth) ==
    CASE chwidth = "CH_WIDTH_20MHZ" -> "CH_WIDTH_20MHZ"
      [] chwidth = "CH_WIDTH_40MHZ" -> "CH_WIDTH_40MHZ"
      [] chwidth \in {"CH_WIDTH_80MHZ", "CH_WIDTH_80P80MHZ",
                      "CH_WIDTH_160MHZ"} -> "CH_WIDTH_80MHZ"
      [] OTHER -> "CH_WIDTH_INVALID"

dfs_translate_chwidth_enum2val(chwidth) ==
    CASE chwidth = "CH_WIDTH_20MHZ" -> DFS_CHWIDTH_20_VAL
      [] chwidth = "CH_WIDTH_40MHZ" -> DFS_CHWIDTH_40_VAL
      [] chwidth \in {"CH_WIDTH_80MHZ", "CH_WIDTH_80P80MHZ"}
           -> DFS_CHWIDTH_80_VAL
      [] chwidth = "CH_WIDTH_160MHZ" -> 2 * DFS_CHWIDTH_80_VAL
      [] OTHER -> 0

\* the end of dfs_get_ieeechan_for_agilecac_for_freq, once the forest has
\* answered ieee_chan_freq
AgileChanFound(s1, ieee_chan_freq) ==
    [s |-> [s1 EXCEPT !.soc.ocac_status = OCAC_RESET,
                      !.dfs.dfs_agile_precac_freq_mhz = ieee_chan_freq],
     ch_freq |-> ieee_chan_freq]

\* [s, ch_freq]: ch_freq is the caller's variable, left as it was on the
\* early return (dfs_fw_adfs_support_160 is taken as set)
dfs_get_ieeechan_for_agilecac_for_freq(s, curchan, ch_freq, pri_ch_freq, sec_ch_freq) ==
    LET chwidth == dfs_find_chwidth_and_center_chan_for_freq(curchan)
        s1 == [s EXCEPT !.dfs.dfs_precac_chwidth = dfs_find_agile_width(chwidth)]
        chwidth_val ==
            dfs_translate_chwidth_enum2val(s1.dfs.dfs_precac_chwidth)
    IN IF s1.dfs.dfs_precac_chwidth = "CH_WIDTH_INVALID"
       THEN [s |-> s1, ch_freq |-> ch_freq]
       ELSE AgileChanFound(s1, dfs_get_ieeechan_for_precac_for_freq(
                                   s.list, curchan, pri_ch_freq, sec_ch_freq,
                                   chwidth_val))

\* the length of the timeout is not followed, except that it is 0 when the
\* status handed in is OCAC_SUCCESS
dfs_start_agile_precac_timer(s, ocac_status) ==
    IF ocac_status = OCAC_SUCCESS
    THEN [s EXCEPT !.soc.dfs_precac_timer_running = 1,
                   !.soc.ocac_status = OCAC_SUCCESS]
    ELSE [s EXCEPT !.soc.dfs_precac_timer_running = 1]

\* vhtop_ch_freq_seg2 of dfs_prepare_agile_precac_chan for the serving
\* channel curchan
AgileSecSeg(curchan) ==
    IF curchan.mode = "160"
    THEN IF curchan.seg2 < curchan.seg1
         THEN U16(curchan.seg2 - DFS_160MHZ_SECSEG_CHAN_OFFSET)
         ELSE U16(curchan.seg2 + DFS_160MHZ_SECSEG_CHAN_OFFSET)
    ELSE curchan.seg2

\* the candidate is always asked of the radio the handler was called on
AgileChanOfCaller(s1, curchan, cur_dfs_idx, ch_freq) ==
    dfs_get_ieeechan_for_agilecac_for_freq(
        s1, curchan, ch_freq, curchan.seg1, AgileSecSeg(curchan))

\* dfs_get_ieeechan_for_agilecac_for_freq on temp_dfs, the radio
\* cur_dfs_idx of dfs_priv[]: the radio the handler was called on, with
\* serving channel curchan, or the other one
AgileChanOfRadio(s1, curchan, cur_dfs_idx, ch_freq) ==
    IF cur_dfs_idx = s1.dfs.dfs_psoc_idx
    THEN dfs_get_ieeechan_for_agilecac_for_freq(
             s1, curchan, ch_freq, curchan.seg1, AgileSecSeg(curchan))
    ELSE LET peer == s1.soc.peer
             r == dfs_get_ieeechan_for_agilecac_for_freq(
                      [s1 EXCEPT !.list = peer.list, !.dfs = peer.dfs],
                      peer.curchan, ch_freq, peer.curchan.seg1,
                      AgileSecSeg(peer.curchan))
         IN [s |-> [r.s EXCEPT !.list = s1.list, !.dfs = s1.dfs,
                               !.soc.peer.list = r.s.list,
                               !.soc.peer.dfs = r.s.dfs],
             ch_freq |-> r.ch_freq]

\* the for loop of dfs_prepare_agile_precac_chan from its round i on, with
\* r = [s, ch_freq] what the rounds before have left: the loop ends at
\* NUM_DFS_PRIVS rounds or at the break on a frequency found
RECURSIVE PrepareLoop(_, _, _)
PrepareLoop(r, curchan, i) ==
    IF i >= NUM_DFS_PRIVS \/ r.ch_freq # 0 THEN r
    ELSE LET cur_dfs_idx ==
                 (r.s.soc.cur_precac_dfs_index + 1) % NUM_DFS_PRIVS
             s1 == [r.s EXCEPT !.soc.cur_precac_dfs_index = cur_dfs_idx]
         IN IF ~s1.soc.agile_precac_active[cur_dfs_idx + 1]
            THEN PrepareLoop([s |-> s1, ch_freq |-> r.ch_freq], curchan, i + 1)
            ELSE PrepareLoop(AgileChanOfRadio(s1, curchan, cur_dfs_idx,
                                              r.ch_freq),
                             curchan, i + 1)

\* the end of dfs_prepare_agile_precac_chan, after the loop
AgileChanPrepared(r) ==
    IF r.ch_freq # 0
    THEN Sent(dfs_start_agile_precac_timer(r.s, r.s.soc.ocac_status),
              "dfs_agile_ch_cfg_cmd", r.ch_freq)
    ELSE [r.s EXCEPT !.soc.precac_state_started = FALSE]

dfs_prepare_agile_precac_chan(s, curchan) ==
    AgileChanPrepared(PrepareLoop([s |-> s, ch_freq |-> 0], curchan, 0))

\* the end of the agile branch of dfs_precac_timeout: r is what
\* dfs_precac_check_home_chan_change answered
PrepareUnlessHome(r, curchan) ==
    IF ~r.ret THEN dfs_prepare_agile_precac_chan(r.s, curchan) ELSE r.s

\* an expiry that goes on to the next agile channel without marking
PrecacTimeoutAgileNoMark(s, curchan) ==
    PrepareUnlessHome(dfs_precac_check_home_chan_change(s), curchan)

\* the agile branch of dfs_precac_timeout
PrecacTimeoutAgile(s, curchan) ==
    LET s1 == IF s.soc.ocac_status = OCAC_SUCCESS
              THEN Sent([s EXCEPT
                            !.soc.ocac_status = OCAC_RESET,
                            !.list = dfs_mark_precac_done_for_freq(
                                         s.list,
                                         s.dfs.dfs_agile_precac_freq_mhz, 0,
                                         s.dfs.dfs_precac_chwidth)],
                        "dfs_mark_precac_done_for_freq",
                        s.dfs.dfs_agile_precac_freq_mhz)
              ELSE s
    IN PrepareUnlessHome(dfs_precac_check_home_chan_change(s1), curchan)

dfs_precac_timeout(s, curchan) ==
    LET s1 == [s EXCEPT !.soc.dfs_precac_timer_running = 0]
    IN IF dfs_is_legacy_precac_enabled(s1.dfs) THEN PrecacTimeoutLegacy(s1)
       ELSE IF dfs_is_agile_precac_enabled(s1.dfs)
       THEN PrecacTimeoutAgile(s1, curchan)
       ELSE s1

\* the agile branch without the comparison of the radio indices
AgileRadarOnAnyRadio(s, curchan, dfs_psoc_idx, on_agile_detector) ==
    IF on_agile_detector
    THEN dfs_prepare_agile_precac_chan(
             Sent(dfs_cancel_precac_timer(s), "dfs_ocac_abort_cmd", 0),
             curchan)
    ELSE [Sent(dfs_cancel_precac_timer(s), "dfs_ocac_abort_cmd", 0) EXCEPT
             !.dfs.dfs_agile_precac_freq_mhz = 0,
             !.soc.precac_state_started = PRECAC_NOT_STARTED]

\* the agile branch of dfs_mark_precac_nol_for_freq, after the forest
\* update, when the timer is running; dfs_psoc_idx is the radio the radar
\* was reported on, on_agile_detector whether detector_id is the agile
\* detector of that radio
MarkPrecacNolAgile(s, curchan, dfs_psoc_idx, on_agile_detector) ==
    IF s.soc.cur_precac_dfs_index # dfs_psoc_idx THEN s
    ELSE LET s1 == Sent(dfs_cancel_precac_timer(s), "dfs_ocac_abort_cmd", 0)
         IN IF on_agile_detector
            THEN dfs_prepare_agile_precac_chan(s1, curchan)
            ELSE [s1 EXCEPT !.dfs.dfs_agile_precac_freq_mhz = 0,
                            !.soc.precac_state_started = PRECAC_NOT_STARTED]

\* dfs_mark_precac_nol_for_freq after its forest update (s.list holds the
\* updated forest of radio 0)
MarkPrecacNolCtl(s, curchan, dfs_psoc_idx, is_radar_found_on_secondary_seg, on_agile_detector, ap_cac_running) ==
    IF s.soc.dfs_precac_timer_running = 0 THEN s
    ELSE IF dfs_psoc_idx = 0 /\ dfs_is_legacy_precac_enabled(s.dfs)
    THEN MarkPrecacNolLegacy(s, is_radar_found_on_secondary_seg,
                             ap_cac_running)
    ELSE IF dfs_psoc_idx # 0 \/ dfs_is_agile_precac_enabled(s.dfs)
    THEN MarkPrecacNolAgile(s, curchan, dfs_psoc_idx, on_agile_detector)
    ELSE s

\* variant: the NOL expiry re-plans whether the timer runs or not
UnmarkReplansAlways(s, curchan, ap_cac_running) ==
    IF dfs_is_legacy_precac_enabled(s.dfs)
    THEN UnmarkPrecacNolLegacy(s, curchan, ap_cac_running)
    ELSE IF dfs_is_agile_precac_enabled(s.dfs)
            /\ ~s.soc.precac_state_started
    THEN dfs_prepare_agile_precac_chan(s, curchan)
    ELSE s

\* dfs_unmark_precac_nol_for_freq after its forest update
UnmarkPrecacNolCtl(s, curchan, ap_cac_running) ==
    IF s.soc.dfs_precac_timer_running # 0 THEN s
    ELSE IF dfs_is_legacy_precac_enabled(s.dfs)
    THEN UnmarkPrecacNolLegacy(s, curchan, ap_cac_running)
    ELSE IF dfs_is_agile_precac_enabled(s.dfs)
            /\ ~s.soc.precac_state_started
    THEN dfs_prepare_agile_precac_chan(s, curchan)
    ELSE s

\* the completion handler selecting the next channel whatever the status
OcacCompleteAlwaysSelects(s, curchan, ocac_status) ==
    dfs_prepare_agile_precac_chan(dfs_cancel_precac_timer(s), curchan)

dfs_process_ocac_complete(s, curchan, ocac_status) ==
    LET s1 == dfs_cancel_precac_timer(s)
    IN IF ocac_status = OCAC_RESET
       THEN dfs_prepare_agile_precac_chan(s1, curchan)
       ELSE IF ocac_status = OCAC_CANCEL THEN s1
       ELSE IF ocac_status = OCAC_SUCCESS
       THEN dfs_start_agile_precac_timer(s1, ocac_status)
       ELSE s1

dfs_agile_precac_start(s) ==
    LET s1 == IF ~s.soc.precac_state_started
              THEN [s EXCEPT !.soc.cur_precac_dfs_index = s.dfs.dfs_psoc_idx]
              ELSE s
        s2 == [s1 EXCEPT !.soc.agile_precac_active[
                              s1.soc.cur_precac_dfs_index + 1] = TRUE]
    IN IF ~s2.soc.precac_state_started
       THEN dfs_start_agile_precac_timer(
                [s2 EXCEPT !.soc.precac_state_started = TRUE], 0)
       ELSE s2

\* variant: the flags are set whatever the regulatory domain
EnableInAnyDomain(s, value, target_type) ==
    LET s0 == [s EXCEPT !.dfs.target_type = target_type]
        s1 == IF value = 1
              THEN IF target_type = "qca9984"
                   THEN [s0 EXCEPT !.dfs.dfs_legacy_precac_ucfg = TRUE]
                   ELSE [s0 EXCEPT !.dfs.dfs_agile_precac_ucfg = TRUE]
              ELSE [s0 EXCEPT !.dfs.dfs_agile_precac_ucfg = FALSE,
                              !.dfs.dfs_legacy_precac_ucfg = FALSE]
    IN IF s1.soc.dfs_precac_timer_running # 0
       THEN [dfs_cancel_precac_timer(s1) EXCEPT
                !.soc.precac_state_started = FALSE]
       ELSE s1

\* the target is a QCA9984 (legacy preCAC) or not (agile preCAC):
\* target_type is what lmac_get_target_type answers, "unread" until the
\* first call
dfs_set_precac_enable(s, value, target_type) ==
    LET s0 == [s EXCEPT !.dfs.target_type = target_type]
        s1 == IF value = 1 /\ s.dfs.dfsdomain = DFS_ETSI_DOMAIN
              THEN IF target_type = "qca9984"
                   THEN [s0 EXCEPT !.dfs.dfs_legacy_precac_ucfg = TRUE]
                   ELSE [s0 EXCEPT !.dfs.dfs_agile_precac_ucfg = TRUE]
              ELSE [s0 EXCEPT !.dfs.dfs_agile_precac_ucfg = FALSE,
                              !.dfs.dfs_legacy_precac_ucfg = FALSE]
    IN IF s1.soc.dfs_precac_timer_running # 0
       THEN [dfs_cancel_precac_timer(s1) EXCEPT
                !.soc.precac_state_started = FALSE]
       ELSE s1

(***************************************************************************)
(* The operator's channel: intermediate channel and preferred channel.     *)
(***************************************************************************)
\* TAILQ_REMOVE and TAILQ_INSERT_HEAD of the first entry centred at freq
MoveToHead(list, freq) ==
    IF \E i \in 1..Len(list) : list[i].vht80_ch_freq = freq
    THEN LET i == CHOOSE j \in 1..Len(list) :
                     /\ list[j].vht80_ch_freq = freq
                     /\ \A k \in 1..(j - 1) : list[k].vht80_ch_freq # freq
         IN <<list[i]>> \o SubSeq(list, 1, i - 1)
                        \o SubSeq(list, i + 1, Len(list))
    ELSE list

dfs_set_precac_preferred_channel(s, chan) ==
    IF /\ s.soc.dfs_precac_timer_running # 0
       /\ chan.mode = "80"
       /\ s.dfs.dfs_precac_secondary_freq_mhz = chan.freq
    THEN s
    ELSE LET l1 == IF chan.is_dfs THEN MoveToHead(s.list, chan.seg1)
                   ELSE s.list
             freq_160_sec_mhz ==
                 IF chan.freq < chan.seg2 THEN chan.seg1 + VHT160_FREQ_DIFF
                 ELSE chan.seg1 - VHT160_FREQ_DIFF
             l2 == IF chan.mode = "160" /\ chan.is_dfs
                   THEN MoveToHead(l1, freq_160_sec_mhz) ELSE l1
         IN [s EXCEPT !.list = l2]

\* [s, ret, pref_chan_freq]: the state, the answer and what is left in the
\* caller's *pref_chan_freq
dfs_decide_precac_preferred_chan_for_freq(s, pref_chan_freq, mode) ==
    LET chan == dfs_mlme_find_dot11_chan_for_freq(pref_chan_freq, mode)
    IN IF chan = NoDot11Chan
       THEN [s |-> s, ret |-> FALSE, pref_chan_freq |-> pref_chan_freq]
       ELSE IF s.dfs.dfs_precac_inter_chan_freq = 0
       THEN [s |-> s, ret |-> FALSE, pref_chan_freq |-> pref_chan_freq]
       ELSE IF chan.is_dfs /\ ~dfs_is_precac_done(s.list, chan)
       THEN [s |-> [dfs_set_precac_preferred_channel(s, chan) EXCEPT
                       !.dfs.dfs_autoswitch_des_chan_freq = pref_chan_freq,
                       !.dfs.dfs_autoswitch_des_mode = mode],
             ret |-> TRUE,
             pref_chan_freq |-> s.dfs.dfs_precac_inter_chan_freq]
       ELSE [s |-> [s EXCEPT !.dfs.dfs_precac_inter_chan_freq = chan.freq],
             ret |-> FALSE, pref_chan_freq |-> pref_chan_freq]

EINVAL == 22

\* [s, ret]
dfs_set_precac_intermediate_chan(s, freq) ==
    LET chan == dfs_mlme_find_dot11_chan_for_freq(freq, "80")
    IN IF chan = NoDot11Chan THEN [s |-> s, ret |-> -EINVAL]
       ELSE IF ~chan.is_dfs
       THEN [s |-> [s EXCEPT !.dfs.dfs_precac_inter_chan_freq = freq],
             ret |-> 0]
       ELSE [s |-> [s EXCEPT !.dfs.dfs_precac_inter_chan_freq = 0],
             ret |-> -EINVAL]

(***************************************************************************)
(* SpecTimer: a bounded number of calls of the handlers of one radio's     *)
(* preCAC: configuration, channel set, timer expiry, radar, NOL expiry,    *)
(* firmware completion, CAC completion on the serving channel.  last       *)
(* records the handler, its inputs and, in ret, what it did (out).         *)
(***************************************************************************)
Here == [list |-> dfs_precac_list, dfs |-> dfs, soc |-> dfs_soc_obj,
         out |-> <<>>]

\* the handler op with inputs args takes the program from Here to s
Handled(op, args, s) ==
    /\ nevents < MaxTimerEvents
    /\ nevents' = nevents + 1
    /\ dfs_precac_list' = s.list
    /\ dfs' = s.dfs
    /\ dfs_soc_obj' = s.soc
    /\ last' = [op |-> op, args |-> args, ret |-> s.out]
    /\ pre' = dfs_precac_list
    /\ UNCHANGED <<dfs_curchan, watch, conc, freed>>

\* the same for a configuration call, which is not counted among the
\* MaxTimerEvents events
Configured(op, args, s) ==
    /\ dfs_precac_list' = s.list
    /\ dfs' = s.dfs
    /\ dfs_soc_obj' = s.soc
    /\ last' = [op |-> op, args |-> args, ret |-> s.out]
    /\ pre' = dfs_precac_list
    /\ UNCHANGED <<dfs_curchan, nevents, watch, conc, freed>>

CurchansT ==
    {[mode |-> "80", seg1 |-> 5210, seg2 |-> 0],
     [mode |-> "80", seg1 |-> 5290, seg2 |-> 0]}

SetCurchanT ==
    /\ \E c \in CurchansT \ {dfs_curchan} : dfs_curchan' = c
    /\ last' = [op |-> "set_curchan", args |-> <<>>, ret |-> <<>>]
    /\ UNCHANGED <<dfs_precac_list, pre, nevents, ctl>>

\* the target type of a radio does not change
SetPrecacEnable ==
    \E value \in {0, 1}, target_type \in {"qca9984", "other"} :
        /\ dfs.target_type \in {"unread", target_type}
        /\ Configured("dfs_set_precac_enable", <<value, target_type>>,
                   dfs_set_precac_enable(Here, value, target_type))

SetPrecacIntermediateChan ==
    \E freq \in {5180} :
        Configured("dfs_set_precac_intermediate_chan", <<freq>>,
                dfs_set_precac_intermediate_chan(Here, freq).s)

DecidePrecacPreferredChan ==
    \E a \in {<<5260, "80">>} :
        Configured("dfs_decide_precac_preferred_chan_for_freq", a,
                dfs_decide_precac_preferred_chan_for_freq(Here, a[1], a[2]).s)

FindVht80ChanForPrecac ==
    /\ dfs_curchan.mode = "80"
    /\ Handled("dfs_find_vht80_chan_for_precac_for_freq",
               <<dfs_curchan.seg1>>,
               dfs_find_vht80_chan_for_precac_for_freq(
                   Here, dfs_curchan, dfs_curchan.seg1))

AgilePrecacStart ==
    /\ dfs_is_agile_precac_enabled(dfs)
    /\ Handled("dfs_agile_precac_start", <<>>, dfs_agile_precac_start(Here))

\* the timer fires only while it is armed
PrecacTimeout ==
    /\ dfs_soc_obj.dfs_precac_timer_running # 0
    /\ Handled("dfs_precac_timeout", <<>>,
               dfs_precac_timeout(Here, dfs_curchan))

\* <<dfs_psoc_idx, freq_lst, is_radar_found_on_secondary_seg,
\*   on_agile_detector, ap_cac_running>>
RadarArgs ==
    {<<0, <<f>>, sec, ag, ap>> : f \in {5260}, sec \in {0, 1},
                                ag \in BOOLEAN, ap \in BOOLEAN}
    \cup {<<1, <<>>, 0, ag, FALSE>> : ag \in BOOLEAN}

\* radar on radio 1 marks the forest of radio 1, which is not followed; a
\* QCA9984 has one radio
MarkPrecacNolT ==
    \E a \in RadarArgs :
        /\ a[1] # 0 => dfs.target_type = "other"
        /\ Handled("dfs_mark_precac_nol_for_freq", a,
                   MarkPrecacNolCtl(
                       [Here EXCEPT !.list =
                           dfs_mark_precac_nol_for_freq(dfs_precac_list, a[2])],
                       dfs_curchan, a[1], a[3], a[4], a[5]))

UnmarkPrecacNolT ==
    \E f \in {5260}, ap \in BOOLEAN :
        Handled("dfs_unmark_precac_nol_for_freq", <<f, ap>>,
                UnmarkPrecacNolCtl(
                    [Here EXCEPT !.list =
                        dfs_unmark_precac_nol_for_freq(dfs_precac_list, f)],
                    dfs_curchan, ap))

\* the completion event comes from a firmware that does agile DFS
ProcessOcacComplete ==
    \E st \in {OCAC_SUCCESS, OCAC_RESET, OCAC_CANCEL} :
        /\ dfs.target_type = "other"
        /\ Handled("dfs_process_ocac_complete", <<st>>,
                   dfs_process_ocac_complete(Here, dfs_curchan, st))

MarkDoneT ==
    \E a \in {<<5290, 0, "CH_WIDTH_80MHZ">>, <<5530, 0, "CH_WIDTH_80MHZ">>} :
        Handled("dfs_mark_precac_done_for_freq", a,
                [Here EXCEPT !.list = dfs_mark_precac_done_for_freq(
                                          dfs_precac_list, a[1], a[2], a[3])])

NextTimer ==
    \/ SetCurchanT \/ SetPrecacEnable \/ SetPrecacIntermediateChan
    \/ DecidePrecacPreferredChan \/ FindVht80ChanForPrecac
    \/ AgilePrecacStart \/ PrecacTimeout \/ MarkPrecacNolT
    \/ UnmarkPrecacNolT \/ ProcessOcacComplete \/ MarkDoneT

SpecTimer == Init /\ [][NextTimer]_vars

(***************************************************************************)
(* SpecDomain: the radio is attached in a regulatory domain, ETSI or not,  *)
(* which it keeps; preCAC is enabled and disabled, the forest is           *)
(* initialised and reset, CAC completions and radar reports arrive and     *)
(* channels are selected.                                                  *)
(***************************************************************************)
InitDomain ==
    \E dfsdomain \in DfsDomains :
        /\ ctx = [c \in Contexts |-> Idle]
        /\ precac_list_lock = NoHolder
        /\ dfs_precac_list = InitPrecacListIn(<<>>, dfsdomain)
        /\ dfs_curchan = NoChan
        /\ last = NoCall
        /\ pre = InitPrecacListIn(<<>>, dfsdomain)
        /\ nevents = 0
        /\ watch = NoWatch
        /\ freed = <<>>
        /\ dfs = InitDfs(dfsdomain)
        /\ dfs_soc_obj = InitSoc

InitPrecacList ==
    /\ dfs_precac_list' = InitPrecacListIn(dfs_precac_list, dfs.dfsdomain)
    /\ last' = [op |-> "dfs_init_precac_list", args |-> <<>>, ret |-> 0]
    /\ pre' = dfs_precac_list
    /\ UNCHANGED <<dfs_curchan, nevents, ctl>>

\* CAC completions on a 20 MHz sub-channel and on a whole band
MarkDoneD ==
    \E a \in {<<5260, 0, "CH_WIDTH_20MHZ">>, <<5530, 0, "CH_WIDTH_80MHZ">>} :
        MarkPrecacDone(a) /\ Event

NextDomain ==
    \/ SetPrecacEnable \/ InitPrecacList \/ ResetPrecacLists
    \/ MarkDoneD \/ Select

SpecDomain == InitDomain /\ [][NextDomain]_vars

(***************************************************************************)
(* SpecOperator: the operator configures the intermediate channel and the  *)
(* preferred channel of a radio in the ETSI domain, while CAC completions  *)
(* and radar reports arrive.                                               *)
(***************************************************************************)
\* a non-DFS channel (5180, 5745), DFS channels (5260, 5500) and a
\* frequency that is no channel (5200)
SetPrecacIntermediateChanO ==
    \E freq \in {5180, 5745, 5260, 5500, 5200} :
        /\ dfs' = dfs_set_precac_intermediate_chan(Here, freq).s.dfs
        /\ last' = [op |-> "dfs_set_precac_intermediate_chan",
                    args |-> <<freq>>,
                    ret |-> dfs_set_precac_intermediate_chan(Here, freq).ret]
        /\ pre' = dfs_precac_list
        /\ UNCHANGED <<dfs_precac_list, dfs_curchan, nevents, watch, conc, freed,
                       dfs_soc_obj>>

\* the channels the operator may prefer: those of Dot11Chans and, on the
\* primary 5260, the 160 MHz channel (primary segment 5290, centre 5250)
\* and the 80+80 MHz channel over both bands
PreferredChans ==
    Dot11Chans
    \cup {[freq |-> 5260, mode |-> "160", seg1 |-> 5290, seg2 |-> 5250,
           is_dfs |-> TRUE],
          [freq |-> 5500, mode |-> "80_80", seg1 |-> 5530, seg2 |-> 5290,
           is_dfs |-> TRUE]}

SetPrecacPreferredChannel ==
    \E chan \in PreferredChans :
        /\ dfs_precac_list' = dfs_set_precac_preferred_channel(Here, chan).list
        /\ last' = [op |-> "dfs_set_precac_preferred_channel",
                    args |-> <<chan>>, ret |-> 0]
        /\ pre' = dfs_precac_list
        /\ UNCHANGED <<dfs_curchan, nevents, ctl>>

NextOperator ==
    \/ SetPrecacIntermediateChanO \/ SetPrecacEnable \/ MarkDoneD
    \/ SetPrecacPreferredChannel

SpecOperator == Init /\ [][NextOperator]_vars

(***************************************************************************)
(* The duration of the agile preCAC timer.  min_precac_timeout is a        *)
(* uint32_t, which the overrides explored (at most 60 s) do not overflow;  *)
(* the durations MIN_PRECAC_DURATION and MIN_WEATHER_PRECAC_DURATION and   *)
(* the weather radar range are macros of a header.  The maximum handed to  *)
(* the firmware is not followed.                                           *)
(***************************************************************************)
EXTRA_TIME_IN_MS == 2000
MIN_PRECAC_DURATION == 60000
MIN_WEATHER_PRECAC_DURATION == 600000

FIND_IF_OVERLAP_WITH_WEATHER_FREQ_RANGE(first_subch, last_subch) ==
    first_subch <= 5650 /\ last_subch >= 5600

dfs_is_pcac_on_weather_channel_for_freq(chwidth, precac_freq) ==
    CASE chwidth = "CH_WIDTH_20MHZ" ->
             FIND_IF_OVERLAP_WITH_WEATHER_FREQ_RANGE(precac_freq, precac_freq)
      [] chwidth = "CH_WIDTH_40MHZ" ->
             FIND_IF_OVERLAP_WITH_WEATHER_FREQ_RANGE(
                 U16(precac_freq - DFS_5GHZ_NEXT_CHAN_FREQ_OFFSET),
                 U16(precac_freq + DFS_5GHZ_NEXT_CHAN_FREQ_OFFSET))
      [] chwidth = "CH_WIDTH_80MHZ" ->
             FIND_IF_OVERLAP_WITH_WEATHER_FREQ_RANGE(
                 U16(precac_freq - DFS_5GHZ_2ND_CHAN_FREQ_OFFSET),
                 U16(precac_freq + DFS_5GHZ_2ND_CHAN_FREQ_OFFSET))
      [] OTHER -> FALSE

\* the end of dfs_start_agile_precac_timer: what qdf_timer_mod is given
HostTimeout(min_precac_timeout) ==
    IF min_precac_timeout # 0
    THEN min_precac_timeout + EXTRA_TIME_IN_MS
    ELSE min_precac_timeout

\* the durations of dfs_start_agile_precac_timer: the minimum handed to the
\* firmware in adfs_param and the timeout the host timer is armed with
AgilePrecacTimeouts(dfs_precac_timeout_override, ocac_status, chwidth, pcacfreq) ==
    LET min_precac_timeout ==
            IF ocac_status = OCAC_SUCCESS THEN 0
            ELSE IF dfs_precac_timeout_override # -1
            THEN dfs_precac_timeout_override * 1000
            ELSE IF dfs_is_pcac_on_weather_channel_for_freq(chwidth, pcacfreq)
            THEN MIN_WEATHER_PRECAC_DURATION
            ELSE MIN_PRECAC_DURATION
    IN [min_precac_timeout |-> min_precac_timeout,
        dfs_precac_timer |-> HostTimeout(min_precac_timeout)]

(***************************************************************************)
(* SpecAgileTimer: the operator overrides the preCAC timeout and the agile *)
(* preCAC timer is started on a target, with the OCAC status of the SoC.   *)
(***************************************************************************)
\* seconds; -1 restores the default
OverridePrecacTimeout ==
    \E precac_timeout \in {-1, 0, 1, 60} :
        /\ dfs' = [dfs EXCEPT !.dfs_precac_timeout_override = precac_timeout]
        /\ last' = [op |-> "dfs_override_precac_timeout",
                    args |-> <<precac_timeout>>, ret |-> 0]
        /\ UNCHANGED <<dfs_precac_list, dfs_curchan, pre, nevents, watch, conc,
                       freed, dfs_soc_obj>>

\* <<precac_chwidth, precac_chan_freq>>: targets below, across and above
\* the weather radar range
AdfsParams ==
    {<<"CH_WIDTH_20MHZ", f>> : f \in {5580, 5600, 5640, 5660}}
    \cup {<<"CH_WIDTH_40MHZ", f>> : f \in {5550, 5590, 5630, 5670}}
    \cup {<<"CH_WIDTH_80MHZ", f>> : f \in {5530, 5610, 5690}}

StartAgilePrecacTimer ==
    \E ocac_status \in {OCAC_SUCCESS, OCAC_RESET, OCAC_CANCEL},
       adfs_param \in AdfsParams :
        /\ dfs_soc_obj' = dfs_start_agile_precac_timer(Here, ocac_status).soc
        /\ last' = [op |-> "dfs_start_agile_precac_timer",
                    args |-> <<ocac_status, adfs_param[1], adfs_param[2]>>,
                    ret |-> AgilePrecacTimeouts(
                                dfs.dfs_precac_timeout_override, ocac_status,
                                adfs_param[1], adfs_param[2])]
        /\ UNCHANGED <<dfs_precac_list, dfs_curchan, pre, nevents, watch, conc,
                       freed, dfs>>

NextAgileTimer == OverridePrecacTimeout \/ StartAgilePrecacTimer

SpecAgileTimer == Init /\ [][NextAgileTimer]_vars

(***************************************************************************)
(* SpecRace: the handlers of a legacy radio whose preCAC is under way run  *)
(* in four contexts (timer expiry, radar report, NOL expiry, operator)     *)
(* that interleave between the steps below.  A handler is cut where the    *)
(* source takes or releases PRECAC_LIST_LOCK and where it reads the timer  *)
(* state; last.args is <<context, step>> and last.ret tells what the step  *)
(* touched (access: "forest", "timer"), whether the context held the lock  *)
(* while it did (locked), and what it sent (out).  watch is the sequence   *)
(* of handlers begun.                                                      *)
(***************************************************************************)
RaceCurchan == [mode |-> "80", seg1 |-> 5210, seg2 |-> 0]

\* dfs_set_precac_enable(1) on a QCA9984, then
\* dfs_find_vht80_chan_for_precac_for_freq on the serving channel
RaceStart ==
    dfs_find_vht80_chan_for_precac_for_freq(
        dfs_set_precac_enable(
            [list |-> dfs_init_precac_list, dfs |-> InitDfs(DFS_ETSI_DOMAIN),
             soc |-> InitSoc, out |-> <<>>],
            1, "qca9984"),
        RaceCurchan, RaceCurchan.seg1)

InitRace ==
    /\ ctx = [c \in Contexts |-> Idle]
    /\ precac_list_lock = NoHolder
    /\ dfs_precac_list = RaceStart.list
    /\ dfs_curchan = RaceCurchan
    /\ last = [op |-> "none", args |-> <<>>,
               ret |-> [access |-> {}, locked |-> FALSE, out |-> <<>>]]
    /\ pre = RaceStart.list
    /\ nevents = 0
    /\ watch = <<>>
    /\ freed = <<>>
    /\ dfs = RaceStart.dfs
    /\ dfs_soc_obj = RaceStart.soc

\* context c begins the handler op
Begins(c, op) ==
    /\ ctx[c].pc = "idle"
    /\ nevents < MaxRaceEvents
    /\ nevents' = nevents + 1
    /\ watch' = Append(watch, op)

\* context c goes on from pc
Continues(c, pc) ==
    /\ ctx[c].pc = pc
    /\ UNCHANGED <<nevents, watch>>

\* PRECAC_LIST_LOCK and PRECAC_LIST_UNLOCK
Acquire(c) == precac_list_lock = NoHolder /\ precac_list_lock' = c

Release(c) == precac_list_lock = c /\ precac_list_lock' = NoHolder

\* context c, in handler op, takes the program from Here to s and goes to
\* next
RaceStep(c, op, step, next, s, access, locked) ==
    /\ ctx' = [ctx EXCEPT ![c] = next]
    /\ dfs_precac_list' = s.list
    /\ dfs' = s.dfs
    /\ dfs_soc_obj' = s.soc
    /\ last' = [op |-> op, args |-> <<c, step>>,
                ret |-> [access |-> access, locked |-> locked,
                         out |-> s.out]]
    /\ pre' = dfs_precac_list
    /\ UNCHANGED <<dfs_curchan, freed>>

At(c, pc) == [ctx[c] EXCEPT !.pc = pc]

\* dfs_precac_timeout: the armed timer fires; the handler clears
\* dfs_precac_timer_running and calls dfs_mark_precac_done_for_freq on the
\* secondary segment
TimeoutClear ==
    /\ Begins("timer", "dfs_precac_timeout")
    /\ dfs_soc_obj.dfs_precac_timer_running # 0
    /\ UNCHANGED precac_list_lock
    /\ RaceStep("timer", "dfs_precac_timeout", "clear",
                [Idle EXCEPT !.pc = "mark_lock", !.op = "dfs_precac_timeout",
                    !.channels =
                        IF dfs.dfs_precac_secondary_freq_mhz = 0 THEN <<>>
                        ELSE SubChannelsOf(dfs.dfs_precac_secondary_freq_mhz,
                                           0, dfs.dfs_precac_chwidth),
                    !.i = 1],
                [Here EXCEPT !.soc.dfs_precac_timer_running = 0],
                {"timer"}, precac_list_lock = "timer")

\* the handlers the other contexts begin: radar on 5260 (found on the
\* secondary segment, no primary CAC running), the NOL expiry of 5260,
\* and for the operator dfs_reset_precaclists, a CAC completion on the
\* band at 5290 and dfs_is_precac_done_on_ht20_40_80_chan_for_freq(5290)
HandlerEntry(c) ==
    CASE c = "radar" ->
            {[Idle EXCEPT !.op = "dfs_mark_precac_nol_for_freq",
                          !.pc = "nol_lock"]}
      [] c = "nol" ->
            {[Idle EXCEPT !.op = "dfs_unmark_precac_nol_for_freq",
                          !.pc = "unmark_lock"]}
      [] c = "operator" ->
            {[Idle EXCEPT !.op = "dfs_reset_precaclists",
                          !.pc = "deinit_lock"],
             [Idle EXCEPT !.op = "dfs_mark_precac_done_for_freq",
                          !.pc = "mark_lock",
                          !.channels =
                              SubChannelsOf(5290, 0, "CH_WIDTH_80MHZ"),
                          !.i = 1],
             [Idle EXCEPT !.op = "dfs_is_precac_done", !.pc = "query_lock"]}
      [] OTHER -> {}

Call ==
    \E c \in Contexts : \E h \in HandlerEntry(c) :
        /\ Begins(c, h.op)
        /\ UNCHANGED precac_list_lock
        /\ RaceStep(c, h.op, "call", h, Here, {}, FALSE)

\* where a handler stands once it has the lock
LockedPc ==
    [mark_lock |-> "mark_body", nol_lock |-> "nol_body",
     unmark_lock |-> "unmark_body", deinit_lock |-> "deinit_body",
     init_lock |-> "init_body", query_lock |-> "query_body"]

Lock ==
    \E c \in Contexts :
        /\ ctx[c].pc \in DOMAIN LockedPc
        /\ UNCHANGED <<nevents, watch>>
        /\ Acquire(c)
        /\ RaceStep(c, ctx[c].op, "lock", At(c, LockedPc[ctx[c].pc]),
                    Here, {}, TRUE)

\* where a handler goes on after the unlock: dfs_precac_timeout re-plans
\* after its mark-done, dfs_mark_precac_nol_for_freq returns if the list
\* was empty, dfs_reset_precaclists goes from deinit to init
UnlockedPc(c) ==
    CASE ctx[c].pc = "mark_unlock" ->
            IF c = "timer" THEN "replan" ELSE "idle"
      [] ctx[c].pc = "nol_unlock" ->
            IF ctx[c].i = 0 THEN "idle" ELSE "nol_read"
      [] ctx[c].pc = "unmark_unlock" -> "unmark_read"
      [] ctx[c].pc = "deinit_unlock" -> "init_tailq"
      [] ctx[c].pc = "init_unlock" -> "init_print"
      [] ctx[c].pc = "query_unlock" -> "idle"

Unlock ==
    \E c \in Contexts :
        /\ ctx[c].pc \in {"mark_unlock", "nol_unlock", "unmark_unlock",
                          "deinit_unlock", "init_unlock", "query_unlock"}
        /\ UNCHANGED <<nevents, watch>>
        /\ Release(c)
        /\ RaceStep(c, ctx[c].op, "unlock",
                    IF UnlockedPc(c) = "idle" THEN Idle
                    ELSE At(c, UnlockedPc(c)),
                    Here, {}, TRUE)

\* dfs_mark_precac_done_for_freq under the lock: TAILQ_EMPTY, then one turn
\* of the loop over channels[]
MarkDoneBody ==
    \E c \in {"timer", "operator"} :
        /\ Continues(c, "mark_body")
        /\ UNCHANGED precac_list_lock
        /\ RaceStep(c, ctx[c].op, "mark",
                    IF \/ Len(dfs_precac_list) = 0
                       \/ ctx[c].i >= Len(ctx[c].channels)
                    THEN At(c, "mark_unlock")
                    ELSE [ctx[c] EXCEPT !.i = @ + 1],
                    [Here EXCEPT !.list =
                        IF Len(dfs_precac_list) = 0
                           \/ ctx[c].i > Len(ctx[c].channels)
                        THEN dfs_precac_list
                        ELSE MarkDoneChannels(
                                 dfs_precac_list,
                                 <<ctx[c].channels[ctx[c].i]>>, 1)],
                    {"forest"}, precac_list_lock = c)

\* the end of the legacy branch of dfs_precac_timeout; dfs_is_precac_done
\* takes the lock when an auto-switch target is pending
TimeoutReplan ==
    /\ Continues("timer", "replan")
    /\ dfs.dfs_autoswitch_des_chan_freq # 0 => precac_list_lock = NoHolder
    /\ UNCHANGED precac_list_lock
    /\ RaceStep("timer", "dfs_precac_timeout", "replan", Idle,
                ChannelChangeUnlessHome(
                    dfs_precac_check_home_chan_change(Here)),
                {}, FALSE)

\* dfs_mark_precac_nol_for_freq under the lock; with an empty list the
\* handler returns after the unlock
RadarBody ==
    /\ Continues("radar", "nol_body")
    /\ UNCHANGED precac_list_lock
    /\ RaceStep("radar", "dfs_mark_precac_nol_for_freq", "mark",
                [ctx["radar"] EXCEPT !.pc = "nol_unlock",
                    !.i = IF Len(dfs_precac_list) = 0 THEN 0 ELSE 1],
                [Here EXCEPT !.list =
                    dfs_mark_precac_nol_for_freq(dfs_precac_list, <<5260>>)],
                {"forest"}, precac_list_lock = "radar")

\* if (!dfs_soc_obj->dfs_precac_timer_running) return;
RadarRead ==
    /\ Continues("radar", "nol_read")
    /\ UNCHANGED precac_list_lock
    /\ RaceStep("radar", "dfs_mark_precac_nol_for_freq", "read",
                IF dfs_soc_obj.dfs_precac_timer_running = 0 THEN Idle
                ELSE [ctx["radar"] EXCEPT !.pc = "nol_cancel",
                         !.running = dfs_soc_obj.dfs_precac_timer_running],
                Here, {"timer"}, precac_list_lock = "radar")

\* qdf_timer_sync_cancel returns once no timer handler is running
RadarCancel ==
    /\ Continues("radar", "nol_cancel")
    /\ ctx["timer"].pc = "idle"
    /\ UNCHANGED precac_list_lock
    /\ RaceStep("radar", "dfs_mark_precac_nol_for_freq", "cancel", Idle,
                MarkPrecacNolLegacy(Here, 1, FALSE),
                {"timer"}, precac_list_lock = "radar")

\* dfs_unmark_precac_nol_for_freq under the lock
UnmarkBody ==
    /\ Continues("nol", "unmark_body")
    /\ UNCHANGED precac_list_lock
    /\ RaceStep("nol", "dfs_unmark_precac_nol_for_freq", "unmark",
                At("nol", "unmark_unlock"),
                [Here EXCEPT !.list =
                    dfs_unmark_precac_nol_for_freq(dfs_precac_list, 5260)],
                {"forest"}, precac_list_lock = "nol")

\* if (!dfs->dfs_soc_obj->dfs_precac_timer_running)
UnmarkRead ==
    /\ Continues("nol", "unmark_read")
    /\ UNCHANGED precac_list_lock
    /\ RaceStep("nol", "dfs_unmark_precac_nol_for_freq", "read",
                IF dfs_soc_obj.dfs_precac_timer_running # 0 THEN Idle
                ELSE At("nol", "unmark_replan"),
                Here, {"timer"}, precac_list_lock = "nol")

\* the selection inside takes and releases the lock
UnmarkReplan ==
    /\ Continues("nol", "unmark_replan")
    /\ precac_list_lock = NoHolder
    /\ UNCHANGED precac_list_lock
    /\ RaceStep("nol", "dfs_unmark_precac_nol_for_freq", "replan", Idle,
                UnmarkPrecacNolLegacy(Here, dfs_curchan, FALSE),
                {"forest"}, TRUE)

\* dfs_reset_precaclists: dfs_deinit_precac_list under the lock
DeinitBody ==
    /\ Continues("operator", "deinit_body")
    /\ UNCHANGED precac_list_lock
    /\ RaceStep("operator", "dfs_reset_precaclists", "deinit",
                At("operator", "deinit_unlock"),
                [Here EXCEPT !.list =
                    dfs_deinit_precac_list(dfs_precac_list).list],
                {"forest"}, precac_list_lock = "operator")

\* dfs_init_precac_list: TAILQ_INIT(&dfs->dfs_precac_list), before
\* PRECAC_LIST_LOCK
InitTailq ==
    /\ Continues("operator", "init_tailq")
    /\ UNCHANGED precac_list_lock
    /\ RaceStep("operator", "dfs_reset_precaclists", "TAILQ_INIT",
                At("operator", "init_lock"),
                [Here EXCEPT !.list = <<>>],
                {"forest"}, precac_list_lock = "operator")

\* dfs_init_precac_list under the lock
InitBody ==
    /\ Continues("operator", "init_body")
    /\ UNCHANGED precac_list_lock
    /\ RaceStep("operator", "dfs_reset_precaclists", "init",
                At("operator", "init_unlock"),
                [Here EXCEPT !.list =
                    InitListFrom(dfs_precac_list, RegDfsVht80Seg1, 1)],
                {"forest"}, precac_list_lock = "operator")

\* the TAILQ_FOREACH that prints the list, after PRECAC_LIST_UNLOCK
InitPrint ==
    /\ Continues("operator", "init_print")
    /\ UNCHANGED precac_list_lock
    /\ RaceStep("operator", "dfs_reset_precaclists", "print", Idle,
                Here, {"forest"}, precac_list_lock = "operator")

\* dfs_is_precac_done_on_ht20_40_80_chan_for_freq under the lock
QueryBody ==
    /\ Continues("operator", "query_body")
    /\ UNCHANGED precac_list_lock
    /\ RaceStep("operator", "dfs_is_precac_done", "find",
                At("operator", "query_unlock"),
                Sent(Here, "ret",
                     IF dfs_is_precac_done_on_ht20_40_80_chan_for_freq(
                            dfs_precac_list, 5290)
                     THEN 1 ELSE 0),
                {"forest"}, precac_list_lock = "operator")

NextRace ==
    \/ TimeoutClear \/ Call \/ Lock \/ Unlock
    \/ MarkDoneBody \/ TimeoutReplan
    \/ RadarBody \/ RadarRead \/ RadarCancel
    \/ UnmarkBody \/ UnmarkRead \/ UnmarkReplan
    \/ DeinitBody \/ InitTailq \/ InitBody \/ InitPrint \/ QueryBody

SpecRace == InitRace /\ [][NextRace]_vars

(***************************************************************************)
(* SpecAgile: agile preCAC on a radio whose firmware does agile DFS is     *)
(* enabled and disabled, started, completed by the firmware, interrupted   *)
(* by radar and ended by the timer.  watch tells whether the firmware has  *)
(* reported OCAC_SUCCESS since the host last sent an agile channel to the  *)
(* firmware.                                                               *)
(***************************************************************************)
InitAgile ==
    /\ ctx = [c \in Contexts |-> Idle]
    /\ precac_list_lock = NoHolder
    /\ dfs_precac_list = dfs_init_precac_list
    /\ dfs_curchan = RaceCurchan
    /\ last = NoCall
    /\ pre = dfs_init_precac_list
    /\ nevents = 0
    /\ watch = FALSE
    /\ freed = <<>>
    /\ dfs = InitDfs(DFS_ETSI_DOMAIN)
    /\ dfs_soc_obj = InitSoc

\* one call of a handler
HandledA(op, args, s) ==
    /\ nevents < MaxAgileEvents
    /\ nevents' = nevents + 1
    /\ dfs_precac_list' = s.list
    /\ dfs' = s.dfs
    /\ dfs_soc_obj' = s.soc
    /\ last' = [op |-> op, args |-> args, ret |-> s.out]
    /\ pre' = dfs_precac_list
    /\ watch' = IF op = "dfs_process_ocac_complete" /\ args[1] = OCAC_SUCCESS
                THEN TRUE
                ELSE IF \E k \in 1..Len(s.out) :
                            s.out[k].cmd = "dfs_agile_ch_cfg_cmd"
                THEN FALSE
                ELSE watch
    /\ UNCHANGED <<dfs_curchan, conc, freed>>

SetPrecacEnableA ==
    \E value \in {0, 1} :
        Configured("dfs_set_precac_enable", <<value, "other">>,
                   dfs_set_precac_enable(Here, value, "other"))

AgilePrecacStartA ==
    /\ dfs_is_agile_precac_enabled(dfs)
    /\ HandledA("dfs_agile_precac_start", <<>>, dfs_agile_precac_start(Here))

\* the timer fires only while it is armed
PrecacTimeoutA ==
    /\ dfs_soc_obj.dfs_precac_timer_running # 0
    /\ HandledA("dfs_precac_timeout", <<>>,
                dfs_precac_timeout(Here, dfs_curchan))

ProcessOcacCompleteA ==
    \E st \in {OCAC_SUCCESS, OCAC_RESET, OCAC_CANCEL} :
        /\ dfs.target_type = "other"
        /\ HandledA("dfs_process_ocac_complete", <<st>>,
                    dfs_process_ocac_complete(Here, dfs_curchan, st))

\* radar on 5260, reported by the agile detector or by the primary one
MarkPrecacNolA ==
    \E ag \in BOOLEAN :
        HandledA("dfs_mark_precac_nol_for_freq", <<0, <<5260>>, 0, ag, FALSE>>,
                 MarkPrecacNolCtl(
                     [Here EXCEPT !.list =
                         dfs_mark_precac_nol_for_freq(dfs_precac_list,
                                                      <<5260>>)],
                     dfs_curchan, 0, 0, ag, FALSE))

NextAgile ==
    \/ SetPrecacEnableA \/ AgilePrecacStartA \/ PrecacTimeoutA
    \/ ProcessOcacCompleteA \/ MarkPrecacNolA

SpecAgile == InitAgile /\ [][NextAgile]_vars

(***************************************************************************)
(* Vocabulary of the properties.                                           *)
(***************************************************************************)
Entries == 1..Len(dfs_precac_list)

NodeIds(e) == 1..Len(e.nodes)

IsInternal(n) == n.left_child # NULL /\ n.right_child # NULL

\* the node's frequency span contains the 20 MHz sub-channel f
Covers(n, f) == n.ch_freq - n.bandwidth \div 2 < f
                /\ f < n.ch_freq + n.bandwidth \div 2

\* the n_nol_subchs / n_caced_subchs of every node of a forest
NolCounters(list) ==
    [i \in 1..Len(list) |->
        [k \in NodeIds(list[i]) |-> list[i].nodes[k].n_nol_subchs]]

CacCounters(list) ==
    [i \in 1..Len(list) |->
        [k \in NodeIds(list[i]) |-> list[i].nodes[k].n_caced_subchs]]

(***************************************************************************)
(* Properties of the forest under every sequence of calls (Spec).          *)
(***************************************************************************)
\* C1: at every internal node n_nol_subchs is the sum of its two children's
\* n_nol_subchs, after any sequence of radar reports, NOL expiries and
\* CAC completions.
C1_NolSumRule ==
    \A i \in Entries : \A k \in NodeIds(dfs_precac_list[i]) :
        LET nodes == dfs_precac_list[i].nodes
        IN IsInternal(nodes[k]) =>
              nodes[k].n_nol_subchs =
                  nodes[nodes[k].left_child].n_nol_subchs
                  + nodes[nodes[k].right_child].n_nol_subchs

\* C2: at every internal node n_caced_subchs is the sum of its two
\* children's n_caced_subchs, after any sequence of the calls.
C2_CacSumRule ==
    \A i \in Entries : \A k \in NodeIds(dfs_precac_list[i]) :
        LET nodes == dfs_precac_list[i].nodes
        IN IsInternal(nodes[k]) =>
              nodes[k].n_caced_subchs =
                  nodes[nodes[k].left_child].n_caced_subchs
                  + nodes[nodes[k].right_child].n_caced_subchs

\* a tree where a CAC completion of the whole band was followed by radar on
\* one sub-channel: three sub-channels CAC done, one in NOL
C2_Witness ==
    \E i \in Entries :
        LET e == dfs_precac_list[i]
        IN /\ e.nodes[e.tree_root].n_caced_subchs = 3
           /\ e.nodes[e.tree_root].n_nol_subchs = 1

\* C3: at every node n_caced_subchs + n_nol_subchs <= n_valid_subchs,
\* whatever the order of CAC completions and radar reports.
C3_JointBound ==
    \A i \in Entries : \A k \in NodeIds(dfs_precac_list[i]) :
        LET n == dfs_precac_list[i].nodes[k]
        IN n.n_caced_subchs + n.n_nol_subchs <= n.n_valid_subchs

\* C4: at every node 0 <= n_caced_subchs <= n_valid_subchs and
\* 0 <= n_nol_subchs <= n_valid_subchs (the 8-bit counters never wrap).
C4_IndividualBounds ==
    \A i \in Entries : \A k \in NodeIds(dfs_precac_list[i]) :
        LET n == dfs_precac_list[i].nodes[k]
        IN /\ 0 <= n.n_caced_subchs /\ n.n_caced_subchs <= n.n_valid_subchs
           /\ 0 <= n.n_nol_subchs /\ n.n_nol_subchs <= n.n_valid_subchs

\* a root whose NOL counter sits at its maximum while a leaf below it is
\* not in NOL: further radar reports on the band are clamped
C4_Witness ==
    \E i \in Entries :
        LET e == dfs_precac_list[i]
        IN /\ e.nodes[e.tree_root].n_nol_subchs
                  = e.nodes[e.tree_root].n_valid_subchs
           /\ \E k \in NodeIds(e) : /\ ~IsInternal(e.nodes[k])
                                    /\ e.nodes[k].n_nol_subchs = 0

(***************************************************************************)
(* Properties of the channel selection (SpecSelect).                       *)
(***************************************************************************)
\* frequency span <<low, high>> of a channel of width bw centred at freq
SpanOf(freq, bw) == <<freq - bw \div 2, freq + bw \div 2>>

Overlap(a, b) == a[1] < b[2] /\ b[1] < a[2]

\* the spans of the serving channel
ServingSpans(curchan) ==
    CASE curchan.mode = "20" -> {SpanOf(curchan.seg1, DFS_CHWIDTH_20_VAL)}
      [] curchan.mode = "40" -> {SpanOf(curchan.seg1, DFS_CHWIDTH_40_VAL)}
      [] curchan.mode = "80" -> {SpanOf(curchan.seg1, DFS_CHWIDTH_80_VAL)}
      [] curchan.mode = "80_80" -> {SpanOf(curchan.seg1, DFS_CHWIDTH_80_VAL),
                                   SpanOf(curchan.seg2, DFS_CHWIDTH_80_VAL)}
      [] curchan.mode = "160" -> {SpanOf(curchan.seg2, 2 * DFS_CHWIDTH_80_VAL)}
      [] OTHER -> {}

\* a channel of width bw centred at freq touches neither the serving channel
\* nor an exclusion frequency passed to the selection
ClearOfExclusion(freq, bw, excl_pri, excl_sec) ==
    /\ \A s \in ServingSpans(dfs_curchan) : ~Overlap(SpanOf(freq, bw), s)
    /\ \A x \in {excl_pri, excl_sec} \ {0} :
           ~(SpanOf(freq, bw)[1] < x /\ x < SpanOf(freq, bw)[2])

\* some leaf under node n of tree e is in NOL
HasNolLeaf(e, n) ==
    \E k \in NodeIds(e) : /\ ~IsInternal(e.nodes[k])
                          /\ Covers(n, e.nodes[k].ch_freq)
                          /\ e.nodes[k].n_nol_subchs # 0

\* C5: the frequency a selection returns is 0 or the centre of a channel of
\* the requested width whose span intersects neither the serving channel
\* nor the exclusion pair passed to the selection.
C5_SelectionAvoidsExclusion ==
    (last.op = "select" /\ last.ret # 0) =>
        ClearOfExclusion(last.ret, last.args[3], last.args[1], last.args[2])

\* C6: when some tree holds a node of the requested width that needs CAC
\* (n_caced_subchs below its span, n_nol_subchs = 0) and is clear of the
\* serving and excluded channels, the selection returns a non-zero frequency.
C6_SelectionComplete ==
    (/\ last.op = "select"
     /\ \E i \in Entries : \E k \in NodeIds(dfs_precac_list[i]) :
           LET n == dfs_precac_list[i].nodes[k]
           IN /\ n.bandwidth = last.args[3]
              /\ n.n_caced_subchs < N_SUBCHS_FOR_BANDWIDTH(n.bandwidth)
              /\ n.n_nol_subchs = 0
              /\ ClearOfExclusion(n.ch_freq, n.bandwidth,
                                  last.args[1], last.args[2]))
    => last.ret # 0

\* C7: a non-zero frequency returned by a selection is the centre of a node
\* of exactly the requested width that is not fully CAC done and has no
\* leaf in NOL.
C7_SelectionQualifies ==
    (last.op = "select" /\ last.ret # 0) =>
        \E i \in Entries : \E k \in NodeIds(dfs_precac_list[i]) :
            LET n == dfs_precac_list[i].nodes[k]
            IN /\ n.ch_freq = last.ret
               /\ n.bandwidth = last.args[3]
               /\ n.n_caced_subchs < N_SUBCHS_FOR_BANDWIDTH(n.bandwidth)
               /\ ~HasNolLeaf(dfs_precac_list[i], n)

(***************************************************************************)
(* Properties of pairs of calls (SpecHist).                                *)
(***************************************************************************)
\* C8: radar on a 20 MHz sub-channel f whose CAC has just completed leaves
\* f and its 40 and 80 MHz ancestors not CAC done, and moves exactly one
\* sub-channel from n_caced_subchs to n_nol_subchs on every node of the
\* path from the root to f.
C8_NolSupersedesCac ==
    (last.op = "mark_done" /\ last.args[3] = "CH_WIDTH_20MHZ") =>
        LET f == last.args[1]
            after == dfs_mark_precac_nol_for_freq(dfs_precac_list, <<f>>)
            i == FindEntry(dfs_precac_list, 1, f)
        IN \A k \in NodeIds(dfs_precac_list[i]) :
              LET n == dfs_precac_list[i].nodes[k]
                  m == after[i].nodes[k]
              IN Covers(n, f) =>
                    /\ ~dfs_is_precac_done_on_ht20_40_80_chan_for_freq(
                            after, n.ch_freq)
                    /\ m.n_caced_subchs = n.n_caced_subchs - 1
                    /\ m.n_nol_subchs = n.n_nol_subchs + 1

\* C9: repeating a CAC completion (same centre, same width) leaves the
\* forest as the first completion left it.
C9_IdempotentMarkDone ==
    last.op = "mark_done" =>
        dfs_mark_precac_done_for_freq(
            dfs_precac_list, last.args[1], last.args[2], last.args[3])
        = dfs_precac_list

\* a CAC completion that changed a forest in which a sub-channel is in NOL
C9_Witness ==
    /\ last.op = "mark_done"
    /\ dfs_precac_list # pre
    /\ \E i \in Entries :
          dfs_precac_list[i].nodes[dfs_precac_list[i].tree_root].n_nol_subchs
              # 0

\* no node on the path to f has its NOL counter at its maximum
PathUnsaturated(list, f) ==
    \A i \in 1..Len(list) : \A k \in NodeIds(list[i]) :
        LET n == list[i].nodes[k]
        IN Covers(n, f) =>
              n.n_nol_subchs < N_SUBCHS_FOR_BANDWIDTH(n.bandwidth)

C11_CreditRevoked ==
    watch.stage = "expired" =>
        LET i == FindEntry(dfs_precac_list, 1, watch.freq)
            e == dfs_precac_list[i]
        IN /\ \A k \in NodeIds(e) :
                 Covers(e.nodes[k], watch.freq) =>
                    ~dfs_is_precac_done_on_ht20_40_80_chan_for_freq(
                         dfs_precac_list, e.nodes[k].ch_freq)
           /\ \A k \in NodeIds(e) :
                 e.nodes[k].ch_freq = watch.freq =>
                    /\ e.nodes[k].n_caced_subchs = 0
                    /\ e.nodes[k].n_nol_subchs = 0
           /\ dfs_is_pcac_required_for_freq(e.nodes, e.tree_root, watch.freq)

(***************************************************************************)
(* Effect of one CAC completion and of one radar report (SpecHist).        *)
(***************************************************************************)
WidthVal(ch_width) ==
    CASE ch_width = "CH_WIDTH_20MHZ" -> DFS_CHWIDTH_20_VAL
      [] ch_width = "CH_WIDTH_40MHZ" -> DFS_CHWIDTH_40_VAL
      [] ch_width = "CH_WIDTH_80MHZ" -> DFS_CHWIDTH_80_VAL
      [] OTHER -> 0

IsLeaf(n) == n.left_child = NULL /\ n.right_child = NULL

NoNolIn(e) == \A k \in NodeIds(e) : e.nodes[k].n_nol_subchs = 0

\* the 20 MHz sub-channels of tree e inside the channel of width bw at c
LeavesIn(e, c, bw) ==
    {e.nodes[k].ch_freq : k \in {j \in NodeIds(e) :
        /\ IsLeaf(e.nodes[j])
        /\ Covers([ch_freq |-> c, bandwidth |-> bw], e.nodes[j].ch_freq)}}

\* the leaves of tree e below node n that are not CAC done
PendingLeavesBelow(e, n, among) ==
    {j \in NodeIds(e) : /\ IsLeaf(e.nodes[j])
                        /\ e.nodes[j].ch_freq \in among
                        /\ Covers(n, e.nodes[j].ch_freq)
                        /\ e.nodes[j].n_caced_subchs = 0}

\* C12: on a band tree with no NOL, a CAC completion of width 20, 40 or 80
\* centred at c marks exactly the width/20 leaves under the node centred at
\* c: afterwards c and every node inside its span are CAC done, each of the
\* leaves has n_caced_subchs = 1, each ancestor's n_caced_subchs rose by the
\* number of newly marked leaves below it, and nothing else changed (no
\* other node, no other counter, no other tree).
C12_MarkDoneByWidth ==
    LET c == last.args[1]
        bw == WidthVal(last.args[3])
        i == FindEntry(pre, 1, c)
    IN (/\ last.op = "mark_done" /\ bw # 0 /\ NoNolIn(pre[i])) =>
          LET before == pre[i]
              after == dfs_precac_list[i]
              marked == LeavesIn(before, c, bw)
          IN /\ Cardinality(marked) = N_SUBCHS_FOR_BANDWIDTH(bw)
             /\ \A j \in 1..Len(pre) : j # i => dfs_precac_list[j] = pre[j]
             /\ Len(dfs_precac_list) = Len(pre)
             /\ \A k \in NodeIds(before) :
                   LET n == before.nodes[k]
                       m == after.nodes[k]
                   IN /\ m = [n EXCEPT !.n_caced_subchs = m.n_caced_subchs]
                      /\ m.n_caced_subchs = n.n_caced_subchs
                            + Cardinality(PendingLeavesBelow(before, n, marked))
                      /\ (IsLeaf(n) /\ n.ch_freq \in marked)
                            => m.n_caced_subchs = 1
                      /\ (\A f \in Leaves1 : Covers(n, f) => f \in marked)
                            => dfs_is_precac_done_on_ht20_40_80_chan_for_freq(
                                   dfs_precac_list, n.ch_freq)
             /\ dfs_is_precac_done_on_ht20_40_80_chan_for_freq(
                    dfs_precac_list, c)

\* a 40 MHz CAC completion on a band without NOL where one of the two
\* sub-channels was CAC done already and the other one was not
C12_Witness ==
    /\ last.op = "mark_done" /\ last.args[3] = "CH_WIDTH_40MHZ"
    /\ LET before == pre[FindEntry(pre, 1, last.args[1])]
       IN /\ NoNolIn(before)
          /\ \E k \in NodeIds(before) :
                /\ before.nodes[k].ch_freq = last.args[1]
                /\ before.nodes[k].n_caced_subchs = 1
    /\ dfs_precac_list # pre

\* C13: in a band whose four sub-channels are all CAC done, a radar report
\* on one leaf f sets n_nol_subchs of f to 1 and leaves f and each of its
\* ancestors not CAC done, while every node that is not an ancestor of f
\* stays CAC done and the other trees are unchanged.
C13_RadarIsLocal ==
    LET f == last.args[1]
        i == FindEntry(pre, 1, f)
    IN (/\ last.op = "mark_nol" /\ Len(last.args) = 1
        /\ \A k \in NodeIds(pre[i]) :
               IsLeaf(pre[i].nodes[k]) => pre[i].nodes[k].n_caced_subchs = 1) =>
          /\ \A k \in NodeIds(pre[i]) :
                LET n == dfs_precac_list[i].nodes[k]
                IN /\ n.ch_freq = f => n.n_nol_subchs = 1
                   /\ Covers(n, f) <=>
                         ~dfs_is_precac_done_on_ht20_40_80_chan_for_freq(
                              dfs_precac_list, n.ch_freq)
          /\ Len(dfs_precac_list) = Len(pre)
          /\ \A j \in 1..Len(pre) : j # i => dfs_precac_list[j] = pre[j]

(***************************************************************************)
(* Shape of a constructed tree (SpecTree).                                 *)
(***************************************************************************)
RECURSIVE InOrder(_, _)
InOrder(nodes, node) ==
    IF node = NULL THEN <<>>
    ELSE InOrder(nodes, nodes[node].left_child)
         \o <<nodes[node].ch_freq>>
         \o InOrder(nodes, nodes[node].right_child)

\* the node the descent by frequency from node ends at when looking for freq
RECURSIVE DescentFinds(_, _, _)
DescentFinds(nodes, node, freq) ==
    IF node = NULL THEN NULL
    ELSE IF nodes[node].ch_freq = freq THEN node
    ELSE DescentFinds(nodes,
                      dfs_descend_precac_tree_for_freq(nodes, node, freq),
                      freq)

NodesOfWidth(nodes, bw) == {k \in 1..Len(nodes) : nodes[k].bandwidth = bw}

\* C14: the tree built for an 80 MHz centre C has exactly 7 nodes: one
\* 80 MHz root at C, two 40 MHz children of the root, four 20 MHz leaves,
\* each 40 MHz node being the parent of exactly the two leaves inside its
\* span; its in-order traversal is strictly ascending in centre frequency
\* and the descent by frequency (left iff f < node centre) reaches every
\* node from the root.
C14_TreeShape ==
    last.op = "create_tree" =>
        LET nodes == last.ret.nodes
            root == last.ret.tree_root
            order == InOrder(nodes, root)
        IN /\ Len(nodes) = 7
           /\ root # NULL
           /\ nodes[root].ch_freq = last.args[1]
           /\ NodesOfWidth(nodes, DFS_CHWIDTH_80_VAL) = {root}
           /\ NodesOfWidth(nodes, DFS_CHWIDTH_40_VAL)
                 = {nodes[root].left_child, nodes[root].right_child}
           /\ Cardinality(NodesOfWidth(nodes, DFS_CHWIDTH_40_VAL)) = 2
           /\ Cardinality(NodesOfWidth(nodes, DFS_CHWIDTH_20_VAL)) = 4
           /\ \A k \in NodesOfWidth(nodes, DFS_CHWIDTH_20_VAL) :
                 IsLeaf(nodes[k])
           /\ \A k \in NodesOfWidth(nodes, DFS_CHWIDTH_40_VAL) :
                 /\ nodes[k].left_child # nodes[k].right_child
                 /\ {nodes[k].left_child, nodes[k].right_child}
                       = {j \in NodesOfWidth(nodes, DFS_CHWIDTH_20_VAL) :
                             Covers(nodes[k], nodes[j].ch_freq)}
           /\ Len(order) = 7
           /\ \A a, b \in 1..Len(order) : a < b => order[a] < order[b]
           /\ \A k \in 1..Len(nodes) :
                 DescentFinds(nodes, root, nodes[k].ch_freq) = k

\* the tree of the band centred at 5530 MHz, traversed in order
C14_Witness ==
    /\ last.op = "create_tree"
    /\ InOrder(last.ret.nodes, last.ret.tree_root)
          = <<5500, 5510, 5520, 5530, 5540, 5550, 5560>>

(***************************************************************************)
(* Teardown of the forest (SpecFree).                                      *)
(***************************************************************************)
\* C15: for every tree of the forest the freeing of its nodes runs to its
\* end, frees every node exactly once and never touches a node it has
\* freed; the teardown frees every entry of the list, and after
\* dfs_deinit_precac_list the list is empty with no node left alive.
C15_TeardownComplete ==
    last.op \in {"deinit", "reset"} =>
        /\ Len(freed) = Len(pre)
        /\ \A i \in 1..Len(freed) :
              /\ freed[i].vht80_ch_freq = pre[i].vht80_ch_freq
              /\ freed[i].returned_at = NULL
              /\ ~freed[i].bad
              /\ Len(freed[i].frees) = freed[i].n_nodes
              /\ SeqRange(freed[i].frees) = 1..freed[i].n_nodes
              /\ freed[i].alive = {}
        /\ last.op = "deinit" => dfs_precac_list = <<>>

\* the teardown of a forest of two trees in which sub-channels are CAC done
\* and in NOL
C15_Witness ==
    /\ last.op = "deinit"
    /\ Len(pre) = 2
    /\ pre[1].nodes[pre[1].tree_root].n_caced_subchs # 0
    /\ pre[1].nodes[pre[1].tree_root].n_nol_subchs # 0
    /\ freed[1].frees = <<1, 2, 4, 3, 6, 5, 7>>
    /\ dfs_precac_list = <<>>

(***************************************************************************)
(* The preCAC timer and the auto-switch.                                   *)
(***************************************************************************)
Effect(cmd, freq) == [cmd |-> cmd, freq |-> freq]

\* the band centred at c is in the forest and each of its four 20 MHz
\* sub-channels is marked CAC done
LeavesDone(list, c) ==
    \E i \in 1..Len(list) :
        /\ list[i].vht80_ch_freq = c
        /\ \A k \in NodeIds(list[i]) :
              IsLeaf(list[i].nodes[k]) => list[i].nodes[k].n_caced_subchs = 1

\* the auto-switch target recorded in d is pending and CAC done in list
TargetDone(d, list) ==
    /\ d.dfs_autoswitch_des_chan_freq # 0
    /\ \E c \in Dot11Chans :
          /\ c.freq = d.dfs_autoswitch_des_chan_freq
          /\ c.mode = d.dfs_autoswitch_des_mode
          /\ dfs_is_precac_done_on_ht20_40_80_chan_for_freq(list, c.seg1)

\* C16: when the preCAC timer expires in legacy mode, the handler leaves
\* dfs_precac_timer_running at 0 and the four 20 MHz sub-channels of the
\* band at dfs_precac_secondary_freq_mhz marked CAC done, and it does, in
\* this order, the CAC completion and then exactly one more thing: the CSA
\* to the auto-switch target when a target is pending and CAC done in the
\* forest as the completion left it, the request
\* dfs_mlme_channel_change_by_precac otherwise.
C16_LegacyTimerExpiry ==
    [][(last'.op = "dfs_precac_timeout" /\ dfs_is_legacy_precac_enabled(dfs)) =>
          LET sec == dfs.dfs_precac_secondary_freq_mhz
              out == last'.ret
          IN /\ dfs_soc_obj'.dfs_precac_timer_running = 0
             /\ LeavesDone(dfs_precac_list', sec)
             /\ Len(out) = 2
             /\ out[1] = Effect("dfs_mark_precac_done_for_freq", sec)
             /\ out[2] = IF TargetDone(dfs, dfs_precac_list')
                         THEN Effect("mlme_precac_chan_change_csa_for_freq",
                                     dfs.dfs_autoswitch_des_chan_freq)
                         ELSE Effect("dfs_mlme_channel_change_by_precac", 0)]_vars

\* the positions of out where cmd was done
Did(out, cmd) == {k \in 1..Len(out) : out[k].cmd = cmd}

\* C17: a CSA to the operator's channel is sent only by a preCAC timer
\* expiry that found dfs_autoswitch_des_chan_freq non-zero and the target
\* CAC done once the completion was recorded; that expiry sends one CSA, to
\* the target, leaves dfs_autoswitch_des_chan_freq at 0,
\* dfs_precac_inter_chan_freq at the former target and precac_state_started
\* false, and neither selects a new candidate (no agile channel
\* configuration, no dfs_mlme_channel_change_by_precac, agile and secondary
\* frequencies as they were) nor arms the timer.  A second CSA therefore
\* needs a new request.
C17_AutoSwitch ==
    [][Did(last'.ret, "mlme_precac_chan_change_csa_for_freq") # {} =>
          LET out == last'.ret
              des == dfs.dfs_autoswitch_des_chan_freq
          IN /\ last'.op = "dfs_precac_timeout"
             /\ des # 0
             /\ TargetDone(dfs, dfs_precac_list')
             /\ Cardinality(Did(out, "mlme_precac_chan_change_csa_for_freq")) = 1
             /\ \A k \in Did(out, "mlme_precac_chan_change_csa_for_freq") :
                   out[k].freq = des
             /\ dfs'.dfs_autoswitch_des_chan_freq = 0
             /\ dfs'.dfs_precac_inter_chan_freq = des
             /\ ~dfs_soc_obj'.precac_state_started
             /\ dfs_soc_obj'.dfs_precac_timer_running = 0
             /\ Did(out, "dfs_agile_ch_cfg_cmd") = {}
             /\ Did(out, "dfs_mlme_channel_change_by_precac") = {}
             /\ dfs'.dfs_agile_precac_freq_mhz = dfs.dfs_agile_precac_freq_mhz
             /\ dfs'.dfs_precac_secondary_freq_mhz
                   = dfs.dfs_precac_secondary_freq_mhz
             /\ dfs_soc_obj'.cur_precac_dfs_index
                   = dfs_soc_obj.cur_precac_dfs_index]_vars

\* an agile expiry that recorded the CAC completion of the target's band
\* and sent the CSA
C17_Witness ==
    /\ last.op = "dfs_precac_timeout"
    /\ dfs_is_agile_precac_enabled(dfs)
    /\ Did(last.ret, "mlme_precac_chan_change_csa_for_freq") # {}
    /\ Did(last.ret, "dfs_mark_precac_done_for_freq") # {}
    /\ dfs.dfs_autoswitch_des_chan_freq = 0
    /\ dfs.dfs_precac_inter_chan_freq = 5260
    /\ dfs_precac_list # pre

\* every 20 MHz sub-channel of list at a frequency of freq_lst is in NOL
LeavesInNol(list, freq_lst) ==
    \A i \in 1..Len(list) : \A k \in NodeIds(list[i]) :
        (/\ IsLeaf(list[i].nodes[k])
         /\ list[i].nodes[k].ch_freq \in SeqRange(freq_lst))
            => list[i].nodes[k].n_nol_subchs = 1

AgileRadarStep ==
    /\ last'.op = "dfs_mark_precac_nol_for_freq"
    /\ dfs_soc_obj.dfs_precac_timer_running # 0
    /\ \/ last'.args[1] # 0
       \/ /\ dfs_is_agile_precac_enabled(dfs)
          /\ ~dfs_is_legacy_precac_enabled(dfs)

\* the step has selected the next agile candidate after the commands
\* before: either a channel that needs preCAC is configured in the firmware,
\* made the agile target and the timer armed, or no channel is left and
\* preCAC is stopped
NextAgileSelected(before) ==
    LET out == last'.ret
    IN \/ /\ Len(out) = Len(before) + 1
          /\ SubSeq(out, 1, Len(before)) = before
          /\ out[Len(out)].cmd = "dfs_agile_ch_cfg_cmd"
          /\ out[Len(out)].freq # 0
          /\ dfs'.dfs_agile_precac_freq_mhz = out[Len(out)].freq
          /\ dfs_soc_obj'.dfs_precac_timer_running # 0
          /\ ~dfs_is_precac_done_on_ht20_40_80_chan_for_freq(
                  dfs_precac_list', out[Len(out)].freq)
          /\ \A i \in 1..Len(dfs_precac_list') :
                dfs_precac_list'[i].vht80_ch_freq = out[Len(out)].freq
                    => NoNolIn(dfs_precac_list'[i])
       \/ /\ out = before
          /\ dfs'.dfs_agile_precac_freq_mhz = 0
          /\ dfs_soc_obj'.dfs_precac_timer_running = 0
          /\ ~dfs_soc_obj'.precac_state_started

\* what C19 says of a radar report: timer cancelled, OCAC abort sent, then
\* the next candidate selected if pick_next, the agile target reset
\* otherwise
AgileRadarHandled(pick_next) ==
    LET abort == <<Effect("dfs_ocac_abort_cmd", 0)>>
    IN IF pick_next THEN NextAgileSelected(abort)
       ELSE /\ last'.ret = abort
            /\ dfs_soc_obj'.dfs_precac_timer_running = 0
            /\ dfs'.dfs_agile_precac_freq_mhz = 0
            /\ ~dfs_soc_obj'.precac_state_started

\* C19 as stated: whenever a radar report is handled in agile mode while
\* the preCAC timer is running, the timer is cancelled and an OCAC abort is
\* sent; then the next agile candidate is selected if the radar was
\* detected by the agile detector of the radio the preCAC runs on, and
\* otherwise the agile target is reset to 0 and precac_state_started
\* cleared.
C19_AgileRadarAlwaysCancels ==
    [][AgileRadarStep =>
          AgileRadarHandled(
              /\ last'.args[4]
              /\ last'.args[1] = dfs_soc_obj.cur_precac_dfs_index)]_vars

\* C19, amended: a radar report handled in agile mode while the preCAC
\* timer is running, on the radio the preCAC runs on
\* (cur_precac_dfs_index), cancels the timer and sends an OCAC abort; then
\* the next agile candidate is selected if the radar was detected by the
\* agile detector, and otherwise the agile target is reset to 0 and
\* precac_state_started cleared.  Reported on another radio, it leaves the
\* timer running, sends nothing and changes neither the agile target nor
\* precac_state_started.
C19_AgileRadarOnPrecacRadio ==
    [][AgileRadarStep =>
          IF last'.args[1] = dfs_soc_obj.cur_precac_dfs_index
          THEN AgileRadarHandled(last'.args[4])
          ELSE /\ last'.ret = <<>>
               /\ dfs' = dfs
               /\ dfs_soc_obj' = dfs_soc_obj]_vars

\* radar seen by the agile detector of the radio the preCAC runs on, on a
\* sub-channel of the band under preCAC: abort sent and another band
\* configured
C19_Witness ==
    /\ last.op = "dfs_mark_precac_nol_for_freq"
    /\ last.args[1] = 0 /\ last.args[4]
    /\ dfs_is_agile_precac_enabled(dfs)
    /\ Len(last.ret) = 2
    /\ last.ret[1].cmd = "dfs_ocac_abort_cmd"
    /\ last.ret[2].cmd = "dfs_agile_ch_cfg_cmd"
    /\ last.ret[2].freq = 5530
    /\ dfs_soc_obj.dfs_precac_timer_running # 0

\* what C20 says of a step of dfs_process_ocac_complete: status reset,
\* the next agile candidate is selected; status cancel, the timer is left
\* stopped and nothing else is done; status success, the timer is armed
\* again with ocac_status = OCAC_SUCCESS (the 0 ms timeout) and nothing
\* else is done
OcacCompletionHandled ==
    LET st == last'.args[1]
    IN CASE st = OCAC_RESET -> NextAgileSelected(<<>>)
         [] st = OCAC_CANCEL ->
              /\ last'.ret = <<>>
              /\ dfs' = dfs
              /\ dfs_soc_obj' =
                    [dfs_soc_obj EXCEPT !.dfs_precac_timer_running = 0]
         [] st = OCAC_SUCCESS ->
              /\ last'.ret = <<>>
              /\ dfs' = dfs
              /\ dfs_soc_obj' =
                    [dfs_soc_obj EXCEPT !.dfs_precac_timer_running = 1,
                                        !.ocac_status = OCAC_SUCCESS]

\* this step is a timer expiry in agile mode
AgileExpiryStep ==
    /\ last'.op = "dfs_precac_timeout"
    /\ dfs_is_agile_precac_enabled(dfs)
    /\ ~dfs_is_legacy_precac_enabled(dfs)

\* this step is the agile expiry that follows a firmware success
ExpiryAfterSuccess ==
    /\ last.op = "dfs_process_ocac_complete"
    /\ last.args[1] = OCAC_SUCCESS
    /\ AgileExpiryStep

\* the CAC completion of the agile target, as the expiry reports it
TargetMark ==
    <<Effect("dfs_mark_precac_done_for_freq", dfs.dfs_agile_precac_freq_mhz)>>

\* the expiry has recorded one CAC completion, of the agile target, which
\* is CAC done afterwards, and has set ocac_status back to OCAC_RESET
TargetMarkedOnce ==
    /\ Did(last'.ret, "dfs_mark_precac_done_for_freq") = {1}
    /\ last'.ret[1] = TargetMark[1]
    /\ dfs.dfs_agile_precac_freq_mhz # 0 =>
          dfs_is_precac_done_on_ht20_40_80_chan_for_freq(
              dfs_precac_list', dfs.dfs_agile_precac_freq_mhz)
    /\ dfs_soc_obj'.ocac_status = OCAC_RESET

\* an agile expiry that does not find ocac_status = OCAC_SUCCESS records no
\* CAC completion
NoMarkWithoutSuccess ==
    (AgileExpiryStep /\ dfs_soc_obj.ocac_status # OCAC_SUCCESS) =>
        /\ Did(last'.ret, "dfs_mark_precac_done_for_freq") = {}
        /\ dfs_precac_list' = dfs_precac_list

\* the expiry has sent the CSA to the auto-switch target after the commands
\* before, and nothing else
CsaSentAfter(before) ==
    /\ Len(last'.ret) = Len(before) + 1
    /\ SubSeq(last'.ret, 1, Len(before)) = before
    /\ last'.ret[Len(last'.ret)] =
          Effect("mlme_precac_chan_change_csa_for_freq",
                 dfs.dfs_autoswitch_des_chan_freq)

NolExpiryStep == last'.op = "dfs_unmark_precac_nol_for_freq"

\* the NOL counters on the path from the root to f are decremented from the
\* root down, up to the first counter that is 0; nothing else changes in
\* the forest
NolPathDecremented(f) ==
    /\ Len(dfs_precac_list') = Len(dfs_precac_list)
    /\ CacCounters(dfs_precac_list') = CacCounters(dfs_precac_list)
    /\ \A i \in Entries : \A k \in NodeIds(dfs_precac_list[i]) :
          LET nodes == dfs_precac_list[i].nodes
              reached ==
                  /\ Covers(nodes[k], f)
                  /\ \A a \in NodeIds(dfs_precac_list[i]) :
                        Covers(nodes[a], f)
                        /\ nodes[a].bandwidth >= nodes[k].bandwidth
                            => nodes[a].n_nol_subchs # 0
          IN dfs_precac_list'[i].nodes[k].n_nol_subchs =
                 IF reached THEN nodes[k].n_nol_subchs - 1
                 ELSE nodes[k].n_nol_subchs

\* the step has left the timer, the targets and the configuration as they
\* were and has sent nothing
NoReplan ==
    /\ last'.ret = <<>>
    /\ dfs' = dfs
    /\ dfs_soc_obj' = dfs_soc_obj

\* the step has asked for the channel change that starts a legacy preCAC
LegacyReplan ==
    /\ last'.ret = <<Effect("dfs_mlme_channel_change_by_precac", 0)>>
    /\ dfs' = dfs
    /\ dfs_soc_obj' = dfs_soc_obj

\* C21 as stated: a NOL expiry decrements the NOL counters on f's path; if
\* the preCAC timer is not running it then re-plans: in legacy mode the
\* channel change by preCAC when no primary CAC is running, in agile mode
\* the selection of the next agile channel; if the timer is running there
\* is no re-plan and the timer and the targets are unchanged.
C21_NolExpiryReplans ==
    [][NolExpiryStep =>
          /\ NolPathDecremented(last'.args[1])
          /\ IF dfs_soc_obj.dfs_precac_timer_running # 0 THEN NoReplan
             ELSE IF dfs_is_legacy_precac_enabled(dfs)
             THEN ~last'.args[2] => LegacyReplan
             ELSE IF dfs_is_agile_precac_enabled(dfs)
             THEN NextAgileSelected(<<>>)
             ELSE TRUE]_vars

\* C21, amended: a NOL expiry decrements the NOL counters on f's path (down
\* to the first counter that is 0).  With the timer not running: in legacy
\* mode a running primary CAC defers the channel change, and otherwise the
\* channel change by preCAC is asked for only when the serving channel is
\* an 80 MHz one and the selection finds an 80 MHz channel to preCAC; in
\* agile mode the next agile channel is selected only when
\* precac_state_started is clear.  In every other case, and with the timer
\* running, there is no re-plan and the timer and the targets are
\* unchanged.
C21_NolExpiryReplansWhenIdle ==
    [][NolExpiryStep =>
          /\ NolPathDecremented(last'.args[1])
          /\ IF dfs_soc_obj.dfs_precac_timer_running # 0 THEN NoReplan
             ELSE IF dfs_is_legacy_precac_enabled(dfs)
             THEN IF last'.args[2]
                  THEN /\ last'.ret = <<>>
                       /\ dfs_soc_obj' = dfs_soc_obj
                       /\ dfs' = [dfs EXCEPT
                                     !.dfs_defer_precac_channel_change = 1]
                  ELSE IF /\ dfs_curchan.mode = "80"
                          /\ dfs_get_ieeechan_for_precac_for_freq(
                                 dfs_precac_list', dfs_curchan,
                                 dfs_curchan.seg1, 0, DFS_CHWIDTH_80_VAL) # 0
                  THEN LegacyReplan
                  ELSE NoReplan
             ELSE IF dfs_is_agile_precac_enabled(dfs)
                     /\ ~dfs_soc_obj.precac_state_started
             THEN NextAgileSelected(<<>>)
             ELSE NoReplan]_vars

\* the expiry of a sub-channel in NOL, with the timer idle in legacy mode,
\* has asked for the channel change
C21_Witness ==
    /\ last.op = "dfs_unmark_precac_nol_for_freq"
    /\ last.ret = <<Effect("dfs_mlme_channel_change_by_precac", 0)>>
    /\ dfs_is_legacy_precac_enabled(dfs)
    /\ NolCounters(pre) # NolCounters(dfs_precac_list)

(***************************************************************************)
(* Regulatory domain (SpecDomain).                                         *)
(***************************************************************************)
\* C22: outside the ETSI domain, after any sequence of dfs_set_precac_enable,
\* initialisations and resets of the preCAC list and selections, the legacy
\* and the agile flag are both off, the forest has no entry and
\* dfs_get_ieeechan_for_precac_for_freq has answered 0.
C22_NonEtsiInert ==
    dfs.dfsdomain # DFS_ETSI_DOMAIN =>
        /\ ~dfs_is_legacy_precac_enabled(dfs)
        /\ ~dfs_is_agile_precac_enabled(dfs)
        /\ dfs_precac_list = <<>>
        /\ last.op = "select" => last.ret = 0

\* outside ETSI preCAC was asked for (dfs_set_precac_enable(1)), the list
\* was reset and a channel was then asked of the selection
C22_Witness ==
    /\ dfs.dfsdomain # DFS_ETSI_DOMAIN
    /\ dfs.target_type # "unread"
    /\ freed # <<>> \/ nevents > 0
    /\ last.op = "select"

(***************************************************************************)
(* The operator's configuration (SpecOperator).                            *)
(***************************************************************************)
\* C23: dfs_set_precac_intermediate_chan returns -EINVAL for a frequency
\* that is a DFS channel or is not found, and returns 0 and stores the
\* frequency otherwise; whenever it returns -EINVAL the intermediate
\* frequency configured before, and every other field, is as before the
\* call.
C23_IntermediateChanErrors ==
    [][last'.op = "dfs_set_precac_intermediate_chan" =>
          LET freq == last'.args[1]
              chan == dfs_mlme_find_dot11_chan_for_freq(freq, "80")
          IN /\ last'.ret = IF chan = NoDot11Chan \/ chan.is_dfs
                            THEN -EINVAL ELSE 0
             /\ dfs_precac_list' = dfs_precac_list
             /\ dfs_soc_obj' = dfs_soc_obj
             /\ IF last'.ret = 0
                THEN dfs' = [dfs EXCEPT !.dfs_precac_inter_chan_freq = freq]
                ELSE dfs' = dfs]_vars

\* the 80 MHz band of entry e contains the primary 20 MHz of chan
LiesIn(chan, e) ==
    /\ e.vht80_ch_freq - VHT80_FREQ_OFFSET <= chan.freq
    /\ chan.freq <= e.vht80_ch_freq + VHT80_FREQ_OFFSET

\* the entries of after are those of before, each once, and those other
\* than the head of after are in the order they had in before
RotatedToHead(before, after) ==
    /\ Len(after) = Len(before)
    /\ \E i \in 1..Len(before) :
          after = <<before[i]>> \o SubSeq(before, 1, i - 1)
                                \o SubSeq(before, i + 1, Len(before))

\* this step is dfs_set_precac_preferred_channel for a DFS channel that
\* lies in a band of the forest
PreferredDfsChanStep ==
    /\ last'.op = "dfs_set_precac_preferred_channel"
    /\ last'.args[1].is_dfs
    /\ \E i \in Entries : LiesIn(last'.args[1], dfs_precac_list[i])

\* C24: after dfs_set_precac_preferred_channel for a DFS channel of any
\* width lying in some band tree, the tree of that channel's band is the
\* head of the forest list; the trees are the same, with every counter
\* unchanged, and the other trees keep their relative order.
C24_PreferredAtHead ==
    [][PreferredDfsChanStep =>
          /\ LiesIn(last'.args[1], dfs_precac_list'[1])
          /\ RotatedToHead(dfs_precac_list, dfs_precac_list')]_vars

(***************************************************************************)
(* The duration of the agile preCAC timer (SpecAgileTimer).                *)
(***************************************************************************)
\* the centres of the 20 MHz sub-channels of the target of width w at f
SubchCentres(chwidth, f) ==
    LET w == WidthVal(chwidth)
    IN {f - w \div 2 + 10 + 20 * k : k \in 0..(w \div 20 - 1)}

\* the minimum CAC time C25 states, in ms
StatedMinimum(override, chwidth, f) ==
    IF override # -1 THEN override * 1000
    ELSE IF \E c \in SubchCentres(chwidth, f) : 5600 <= c /\ c <= 5650
    THEN MIN_WEATHER_PRECAC_DURATION
    ELSE MIN_PRECAC_DURATION

\* C25: for every start of the agile preCAC timer whose ocac_status is not
\* success, the minimum CAC time is the operator's override in seconds
\* times 1000 when an override is set (any value but -1, 0 included), else
\* the weather minimum when the 20 MHz sub-channel centres of the target
\* overlap [5600, 5650] MHz, else the regular minimum; and the host timer
\* is armed with that minimum plus 2000 ms.
C25_AgileTimerDuration ==
    last.op = "dfs_start_agile_precac_timer" /\ last.args[1] # OCAC_SUCCESS =>
        LET min == StatedMinimum(dfs.dfs_precac_timeout_override,
                                 last.args[2], last.args[3])
        IN /\ last.ret.min_precac_timeout = min
           /\ last.ret.dfs_precac_timer = min + 2000


(***************************************************************************)
(* Properties of the interleaved handlers (SpecRace).                      *)
(***************************************************************************)
\* C26: every step of a handler that reads or writes the forest (init,
\* deinit and reset, mark-done, mark-NOL, unmark-NOL, the status query, the
\* print traversal) is taken while its context holds the forest lock.
C26_ForestUnderLock ==
    (last.op # "none" /\ "forest" \in last.ret.access) => last.ret.locked

\* a context that has read dfs_precac_timer_running and is about to act on
\* what it read
ActsOnRunning(c) == ctx[c].pc \in {"nol_cancel", "unmark_replan"}

\* C27: the reads and writes of dfs_precac_timer_running and the cancel of
\* the timer exclude one another: a context that has read timer_running
\* acts on the value the flag still has, so that no two contexts re-plan
\* for one completion.
C27_NoStaleTimerRunning ==
    \A c \in Contexts :
        ActsOnRunning(c) =>
            ctx[c].running = dfs_soc_obj.dfs_precac_timer_running

\* the timer expiry and the radar report on 5260 have both run to their
\* end, and nothing else has run
RadarAndExpiryDone ==
    /\ \A c \in Contexts : ctx[c].pc = "idle"
    /\ Len(watch) = 2
    /\ {watch[1], watch[2]} =
          {"dfs_precac_timeout", "dfs_mark_precac_nol_for_freq"}

\* the leaf of the 20 MHz sub-channel f is in NOL
LeafInNol(list, f) ==
    \E i \in 1..Len(list) : \E k \in NodeIds(list[i]) :
        /\ ~IsInternal(list[i].nodes[k])
        /\ list[i].nodes[k].ch_freq = f
        /\ list[i].nodes[k].n_nol_subchs # 0

\* C29: when radar on the sub-channel 5260 of the preCAC target 5290 races
\* the expiry of the preCAC timer, then once both handlers have completed
\* 5260 is in NOL and neither 5260 nor 5290 is reported CAC done.
C29_RadarRacingExpiry ==
    RadarAndExpiryDone =>
        /\ LeafInNol(dfs_precac_list, 5260)
        /\ ~dfs_is_precac_done_on_ht20_40_80_chan_for_freq(dfs_precac_list,
                                                           5260)
        /\ ~dfs_is_precac_done_on_ht20_40_80_chan_for_freq(dfs_precac_list,
                                                           5290)


(***************************************************************************)
(* Properties of agile preCAC (SpecAgile).                                 *)
(***************************************************************************)
\* this expiry marks the forest
ExpiryMarks ==
    /\ AgileExpiryStep
    /\ dfs_precac_list' # dfs_precac_list

\* C28: in agile mode the timer expiry marks a frequency CAC done only if
\* the firmware has reported OCAC success since that frequency was sent to
\* it as the agile target (so not after a mere start or restart of agile
\* preCAC), and an expiry that does not find ocac_status = OCAC_SUCCESS
\* leaves the forest unchanged.
C28_MarkNeedsFirmwareSuccess ==
    [][/\ ExpiryMarks => watch = TRUE
       /\ NoMarkWithoutSuccess]_vars


(***************************************************************************)
(* Order of the channel selection (SpecSelect).                            *)
(***************************************************************************)
\* centres of the nodes of width bw of tree e that need CAC, as does every
\* node above them
QualifyingCentres(e, bw) ==
    {e.nodes[k].ch_freq :
        k \in {j \in NodeIds(e) :
                  /\ e.nodes[j].bandwidth = bw
                  /\ \A a \in NodeIds(e) :
                         Covers(e.nodes[a], e.nodes[j].ch_freq) =>
                             dfs_is_cac_needed_for_bst_node_for_freq(
                                 dfs_curchan, e.nodes, a, bw)}}

Lowest(S) == CHOOSE x \in S : \A y \in S : x <= y

\* the trees of the forest that hold a node of width bw that needs CAC
TreesWithCandidate(bw) ==
    {i \in Entries : QualifyingCentres(dfs_precac_list[i], bw) # {}}

\* C30: a selection returns the lowest centre among the nodes of the
\* requested width that need CAC in the first tree, in list order, that
\* holds such a node, and 0 iff no tree holds one.
C30_SelectionOrder ==
    last.op = "select" =>
        last.ret =
            IF TreesWithCandidate(last.args[3]) = {} THEN 0
            ELSE Lowest(QualifyingCentres(
                     dfs_precac_list[Lowest(TreesWithCandidate(last.args[3]))],
                     last.args[3]))


(***************************************************************************)
(* The CAC-done query (Spec).                                              *)
(***************************************************************************)
\* the frequencies asked about: every node centre of the two bands, a
\* frequency inside a band that is no node's centre, the edge of a band
\* and frequencies outside every band
QueryFreqs ==
    {5260, 5270, 5280, 5290, 5300, 5310, 5320,
     5500, 5510, 5520, 5530, 5540, 5550, 5560,
     5265, 5250, 5180, 5400}

\* some tree holds a node centred at f whose n_caced_subchs is its span
FullNodeAt(list, f) ==
    \E i \in 1..Len(list) : \E k \in NodeIds(list[i]) :
        /\ list[i].nodes[k].ch_freq = f
        /\ list[i].nodes[k].n_caced_subchs =
              N_SUBCHS_FOR_BANDWIDTH(list[i].nodes[k].bandwidth)

\* C31: the CAC-done query of f is true iff some tree holds a node centred
\* at f whose n_caced_subchs equals its span (so it is false for a
\* frequency that is no node's centre or lies in no tree), and the query of
\* a 40 or 80 MHz node is true iff it is true for each of the 20 MHz
\* sub-channels of the node.
C31_CacDoneQuery ==
    \A f \in QueryFreqs :
        /\ dfs_is_precac_done_on_ht20_40_80_chan_for_freq(dfs_precac_list, f)
              <=> FullNodeAt(dfs_precac_list, f)
        /\ \A i \in Entries : \A k \in NodeIds(dfs_precac_list[i]) :
              LET e == dfs_precac_list[i]
              IN (IsInternal(e.nodes[k]) /\ e.nodes[k].ch_freq = f) =>
                    (dfs_is_precac_done_on_ht20_40_80_chan_for_freq(
                         dfs_precac_list, f)
                     <=> \A l \in NodeIds(e) :
                            (~IsInternal(e.nodes[l])
                             /\ Covers(e.nodes[k], e.nodes[l].ch_freq)) =>
                                dfs_is_precac_done_on_ht20_40_80_chan_for_freq(
                                    dfs_precac_list, e.nodes[l].ch_freq))

\* the 40 MHz channel 5270 is reported CAC done, its two sub-channels too,
\* and the 80 MHz channel 5290 above it is not
C31_Witness ==
    /\ dfs_is_precac_done_on_ht20_40_80_chan_for_freq(dfs_precac_list, 5270)
    /\ dfs_is_precac_done_on_ht20_40_80_chan_for_freq(dfs_precac_list, 5260)
    /\ dfs_is_precac_done_on_ht20_40_80_chan_for_freq(dfs_precac_list, 5280)
    /\ ~dfs_is_precac_done_on_ht20_40_80_chan_for_freq(dfs_precac_list, 5290)
    /\ ~dfs_is_precac_done_on_ht20_40_80_chan_for_freq(dfs_precac_list, 5265)


(***************************************************************************)
(* Sub-channels the regulatory list does not advertise (Spec).             *)
(***************************************************************************)
Advertised == {RegDfsChanFreq[k] : k \in 1..Len(RegDfsChanFreq)}

\* the advertised 20 MHz sub-channels under node n of tree e
PermittedLeaves(e, n) ==
    {l \in NodeIds(e) : /\ ~IsInternal(e.nodes[l])
                        /\ Covers(n, e.nodes[l].ch_freq)
                        /\ e.nodes[l].ch_freq \in Advertised}

\* C32: a 20 MHz leaf whose frequency the regulatory list does not
\* advertise has n_valid_subchs = 0 and is never counted CAC done or NOL,
\* and the n_valid_subchs of every node counts the advertised leaves under
\* it only.
C32_InvalidLeaves ==
    \A i \in Entries : \A k \in NodeIds(dfs_precac_list[i]) :
        LET e == dfs_precac_list[i]
            n == e.nodes[k]
        IN /\ n.n_valid_subchs = Cardinality(PermittedLeaves(e, n))
           /\ (~IsInternal(n) /\ n.ch_freq \notin Advertised) =>
                 (n.n_caced_subchs = 0 /\ n.n_nol_subchs = 0)


(***************************************************************************)
(* The channel state report (SpecTimer).                                   *)
(***************************************************************************)
\* PRECAC_NOW when the timer runs and the head of the forest is the band of
\* the channel; otherwise by the root of the first tree of that band
dfs_get_precac_chan_state_for_freq(s, pcac_freq) ==
    LET chan == dfs_mlme_find_dot11_chan_for_freq(pcac_freq, "80")
        found == {i \in 1..Len(s.list) : s.list[i].vht80_ch_freq = chan.seg1}
    IN IF chan = NoDot11Chan THEN "PRECAC_ERR"
       ELSE IF ~chan.is_dfs THEN "PRECAC_ERR"
       ELSE IF /\ s.soc.dfs_precac_timer_running # 0
               /\ Len(s.list) > 0
               /\ s.list[1].vht80_ch_freq = chan.seg1
       THEN "PRECAC_NOW"
       ELSE IF found = {} THEN "PRECAC_ERR"
       ELSE LET root == s.list[Lowest(found)].nodes[s.list[Lowest(found)].tree_root]
            IN IF root.n_nol_subchs # 0 THEN "PRECAC_NOL"
               ELSE IF root.n_caced_subchs =
                          N_SUBCHS_FOR_BANDWIDTH(root.bandwidth)
               THEN "PRECAC_DONE"
               ELSE "PRECAC_REQUIRED"

\* the frequency preCAC is running on: the agile channel of an agile
\* preCAC, the secondary segment of a legacy one
PrecacTargetFreq ==
    IF dfs_is_agile_precac_enabled(dfs) THEN dfs.dfs_agile_precac_freq_mhz
    ELSE dfs.dfs_precac_secondary_freq_mhz

\* the 80 MHz DFS channels of the forest, by primary frequency
ForestChans ==
    {c \in Dot11Chans :
        /\ c.mode = "80" /\ c.is_dfs
        /\ \E i \in Entries : dfs_precac_list[i].vht80_ch_freq = c.seg1}

\* the nodes of the trees of the band centred at seg1
LeavesOfBand(seg1) ==
    UNION {{dfs_precac_list[i].nodes[k] : k \in NodeIds(dfs_precac_list[i])} :
              i \in {j \in Entries : dfs_precac_list[j].vht80_ch_freq = seg1}}

\* the report the sentence describes for the channel c
ExpectedChanState(c) ==
    IF /\ dfs_soc_obj.dfs_precac_timer_running # 0
       /\ PrecacTargetFreq # 0
       /\ IS_WITHIN_RANGE(PrecacTargetFreq, c.seg1, VHT80_FREQ_OFFSET)
    THEN "PRECAC_NOW"
    ELSE IF \E n \in LeavesOfBand(c.seg1) : ~IsInternal(n) /\ n.n_nol_subchs # 0
    THEN "PRECAC_NOL"
    ELSE IF \A n \in LeavesOfBand(c.seg1) : ~IsInternal(n) => n.n_caced_subchs = 1
    THEN "PRECAC_DONE"
    ELSE "PRECAC_REQUIRED"

\* C33: for a DFS 80 MHz channel of the forest the state report is NOW iff
\* the preCAC timer is running and the channel is the one preCAC is running
\* on, otherwise NOL if a sub-channel is in NOL, otherwise DONE if its four
\* sub-channels are CAC done, otherwise REQUIRED; the report of a non-DFS or
\* unknown frequency is ERR.
C33_ChanStateReport ==
    /\ \A c \in ForestChans :
          dfs_get_precac_chan_state_for_freq(Here, c.freq) = ExpectedChanState(c)
    /\ \A f \in {5180, 5000} :
          dfs_get_precac_chan_state_for_freq(Here, f) = "PRECAC_ERR"


(***************************************************************************)
(* SpecDecide: the operator sets the intermediate channel and asks for a   *)
(* preferred channel, of 80 or 40 MHz, while CAC completions arrive.       *)
(***************************************************************************)
\* a DFS channel of 80 MHz (5260, 5500) or 40 MHz (5260), a non-DFS channel
\* (5180) and a frequency that is no channel (5200)
DecidePrecacPreferredChanD ==
    \E a \in {<<5260, "80">>, <<5500, "80">>, <<5260, "40">>, <<5180, "80">>,
              <<5200, "80">>} :
        LET r == dfs_decide_precac_preferred_chan_for_freq(Here, a[1], a[2])
        IN /\ dfs_precac_list' = r.s.list
           /\ dfs' = r.s.dfs
           /\ last' = [op |-> "dfs_decide_precac_preferred_chan_for_freq",
                       args |-> a,
                       ret |-> [ret |-> r.ret,
                                pref_chan_freq |-> r.pref_chan_freq]]
           /\ pre' = dfs_precac_list
           /\ UNCHANGED <<dfs_curchan, nevents, watch, conc, freed, dfs_soc_obj>>

NextDecide ==
    \/ SetPrecacIntermediateChanO \/ MarkDoneD \/ DecidePrecacPreferredChanD

SpecDecide == Init /\ [][NextDecide]_vars

\* the centres of the band trees the channel chan lies in
BandsOf(list, chan) ==
    {list[i].vht80_ch_freq : i \in
        {j \in 1..Len(list) :
            IS_WITHIN_RANGE(chan.seg1, list[j].vht80_ch_freq,
                            VHT80_FREQ_OFFSET)}}

\* the step is a call of dfs_decide_precac_preferred_chan_for_freq
DecideStep == last'.op = "dfs_decide_precac_preferred_chan_for_freq"

\* C34: dfs_decide_precac_preferred_chan_for_freq answers true exactly when
\* the channel is found, the intermediate channel is set and the channel is
\* DFS and not preCAC done; then the request is the auto-switch target, the
\* band tree of the channel is at the head of the forest and the caller is
\* handed the intermediate frequency; when it answers false the auto-switch
\* target and the caller's frequency are as before.
C34_PreferredChanDecision ==
    [][DecideStep =>
        LET a == last'.args
            r == last'.ret
            chan == dfs_mlme_find_dot11_chan_for_freq(a[1], a[2])
        IN /\ r.ret <=> /\ chan # NoDot11Chan
                        /\ dfs.dfs_precac_inter_chan_freq # 0
                        /\ chan.is_dfs
                        /\ ~dfs_is_precac_done(dfs_precac_list, chan)
           /\ r.ret =>
                 /\ dfs'.dfs_autoswitch_des_chan_freq = a[1]
                 /\ dfs'.dfs_autoswitch_des_mode = a[2]
                 /\ \A b \in BandsOf(dfs_precac_list, chan) :
                       dfs_precac_list'[1].vht80_ch_freq = b
                 /\ r.pref_chan_freq = dfs.dfs_precac_inter_chan_freq
           /\ ~r.ret =>
                 /\ dfs'.dfs_autoswitch_des_chan_freq =
                       dfs.dfs_autoswitch_des_chan_freq
                 /\ dfs'.dfs_autoswitch_des_mode = dfs.dfs_autoswitch_des_mode
                 /\ r.pref_chan_freq = a[1]]_vars


(***************************************************************************)
(* SpecChanSet: a channel is being set on a radio with legacy preCAC:      *)
(* dfs_find_vht80_chan_for_precac_for_freq is called with the 80 MHz       *)
(* centre of the new primary while dfs_curchan is the channel served so    *)
(* far; the timer expires, CAC completions arrive.                         *)
(***************************************************************************)
FindVht80ChanForNewPrimary ==
    \E cfreq_seg1_mhz \in {5210, 5290, 5530} :
        Handled("dfs_find_vht80_chan_for_precac_for_freq",
                <<cfreq_seg1_mhz>>,
                dfs_find_vht80_chan_for_precac_for_freq(
                    Here, dfs_curchan, cfreq_seg1_mhz))

NextChanSet ==
    \/ SetCurchanT \/ SetPrecacEnable \/ FindVht80ChanForNewPrimary
    \/ PrecacTimeout \/ MarkDoneT

SpecChanSet == Init /\ [][NextChanSet]_vars

\* C35: after a call of dfs_find_vht80_chan_for_precac_for_freq with legacy
\* preCAC enabled, whatever dfs_curchan is, a non-zero
\* dfs_precac_secondary_freq_mhz differs from the primary 80 MHz centre
\* passed in.
C35_SecondaryNotPrimary ==
    (/\ last.op = "dfs_find_vht80_chan_for_precac_for_freq"
     /\ dfs_is_legacy_precac_enabled(dfs)
     /\ dfs.dfs_precac_secondary_freq_mhz # 0) =>
        dfs.dfs_precac_secondary_freq_mhz # last.args[1]


(***************************************************************************)
(* SpecRadios: two radios of one SoC, both with agile preCAC enabled, each *)
(* with its forest and its serving channel.  dfs_agile_precac_start and    *)
(* the firmware's completion event arrive on either radio, the timer       *)
(* expires.  Radio 0 is in dfs_precac_list, dfs and dfs_curchan, radio 1   *)
(* in dfs_soc_obj.peer.                                                    *)
(***************************************************************************)
AgileDfs(idx) ==
    [InitDfs(DFS_ETSI_DOMAIN) EXCEPT !.dfs_psoc_idx = idx,
                                     !.target_type = "other",
                                     !.dfs_agile_precac_ucfg = TRUE]

InitRadios ==
    /\ ctx = [c \in Contexts |-> Idle]
    /\ precac_list_lock = NoHolder
    /\ dfs_precac_list = dfs_init_precac_list
    /\ dfs_curchan = RaceCurchan
    /\ last = NoCall
    /\ pre = dfs_init_precac_list
    /\ nevents = 0
    /\ watch = NoWatch
    /\ freed = <<>>
    /\ dfs = AgileDfs(0)
    /\ dfs_soc_obj =
          [InitSoc EXCEPT !.peer =
              [list |-> dfs_init_precac_list,
               dfs |-> AgileDfs(1),
               curchan |-> [mode |-> "80", seg1 |-> 5530, seg2 |-> 0]]]

\* the handler is called on the other radio: s.list and s.dfs become that
\* radio's, and the radio they were, with serving channel curchan, the peer
SwapRadios(s, curchan) ==
    [s EXCEPT !.list = s.soc.peer.list,
              !.dfs = s.soc.peer.dfs,
              !.soc.peer = [list |-> s.list, dfs |-> s.dfs,
                            curchan |-> curchan]]

\* the handler op, called on radio idx, takes the program from Here to s
\* when idx is 0, and to s with the radios swapped when idx is 1
HandledR(op, idx, args, s) ==
    LET s0 == IF idx = 0 THEN s ELSE SwapRadios(s, dfs_soc_obj.peer.curchan)
    IN /\ nevents < MaxRadioEvents
       /\ nevents' = nevents + 1
       /\ dfs_precac_list' = s0.list
       /\ dfs' = s0.dfs
       /\ dfs_soc_obj' = s0.soc
       /\ last' = [op |-> op, args |-> <<idx>> \o args, ret |-> s.out]
       /\ pre' = dfs_precac_list
       /\ UNCHANGED <<dfs_curchan, watch, conc, freed>>

\* the state a handler called on radio idx starts from
HereOn(idx) == IF idx = 0 THEN Here ELSE SwapRadios(Here, dfs_curchan)

\* the serving channel of radio idx
CurchanOf(idx) == IF idx = 0 THEN dfs_curchan ELSE dfs_soc_obj.peer.curchan

AgilePrecacStartR ==
    \E idx \in 0..(NUM_DFS_PRIVS - 1) :
        /\ dfs_is_agile_precac_enabled(HereOn(idx).dfs)
        /\ HandledR("dfs_agile_precac_start", idx, <<>>,
                    dfs_agile_precac_start(HereOn(idx)))

\* the timer fires only while it is armed; its handler takes the radio
\* cur_precac_dfs_index
PrecacTimeoutR ==
    /\ dfs_soc_obj.dfs_precac_timer_running # 0
    /\ LET idx == dfs_soc_obj.cur_precac_dfs_index
       IN HandledR("dfs_precac_timeout", idx, <<>>,
                   dfs_precac_timeout(HereOn(idx), CurchanOf(idx)))

ProcessOcacCompleteR ==
    \E idx \in 0..(NUM_DFS_PRIVS - 1) :
        \E st \in {OCAC_SUCCESS, OCAC_RESET, OCAC_CANCEL} :
            HandledR("dfs_process_ocac_complete", idx, <<st>>,
                     dfs_process_ocac_complete(HereOn(idx), CurchanOf(idx),
                                               st))

SetPrecacEnableR ==
    \E idx \in 0..(NUM_DFS_PRIVS - 1), value \in {0, 1} :
        HandledR("dfs_set_precac_enable", idx, <<value>>,
                 dfs_set_precac_enable(HereOn(idx), value, "other"))

NextRadios ==
    \/ AgilePrecacStartR \/ PrecacTimeoutR \/ ProcessOcacCompleteR
    \/ SetPrecacEnableR

SpecRadios == InitRadios /\ [][NextRadios]_vars


\* the agile channel radio idx would be given from its own forest
CandidateOf(idx) ==
    LET list == IF idx = 0 THEN dfs_precac_list ELSE dfs_soc_obj.peer.list
        d == IF idx = 0 THEN dfs ELSE dfs_soc_obj.peer.dfs
    IN dfs_get_ieeechan_for_agilecac_for_freq(
           [list |-> list, dfs |-> d, soc |-> dfs_soc_obj, out |-> <<>>],
           CurchanOf(idx), 0, CurchanOf(idx).seg1,
           AgileSecSeg(CurchanOf(idx))).ch_freq

\* the radios in cyclic order from the one after cur_precac_dfs_index
CyclicOrder ==
    [k \in 1..NUM_DFS_PRIVS |->
        (dfs_soc_obj.cur_precac_dfs_index + k) % NUM_DFS_PRIVS]

\* the places in CyclicOrder of the active radios that have a candidate
Yielding ==
    {k \in 1..NUM_DFS_PRIVS :
        /\ dfs_soc_obj.agile_precac_active[CyclicOrder[k] + 1]
        /\ CandidateOf(CyclicOrder[k]) # 0}

\* the step is a completion event with OCAC_RESET: the timer is cancelled
\* and dfs_prepare_agile_precac_chan runs
PrepareStep ==
    /\ last'.op = "dfs_process_ocac_complete"
    /\ last'.args[2] = OCAC_RESET

\* the step is an expiry that marked a frequency CAC done
MarkingExpiry ==
    /\ last'.op = "dfs_precac_timeout"
    /\ \E k \in 1..Len(last'.ret) :
          /\ last'.ret[k].cmd = "dfs_mark_precac_done_for_freq"
          /\ last'.ret[k].freq # 0

\* C36: dfs_prepare_agile_precac_chan takes the first radio, in cyclic
\* order from the one after cur_precac_dfs_index, that is active and has a
\* candidate: the timer is armed, cur_precac_dfs_index is that radio, the
\* channel sent and that radio's agile channel are its candidate, and an
\* expiry marks CAC done in the forest of the radio cur_precac_dfs_index
\* only; when no radio has one the timer is not armed and
\* precac_state_started is false; cur_precac_dfs_index stays in
\* [0, NUM_DFS_PRIVS).
C36_RoundRobinRadio ==
    [][/\ dfs_soc_obj'.cur_precac_dfs_index \in 0..(NUM_DFS_PRIVS - 1)
       /\ PrepareStep =>
             IF Yielding # {}
             THEN LET w == CyclicOrder[Lowest(Yielding)]
                      f == CandidateOf(CyclicOrder[Lowest(Yielding)])
                  IN /\ dfs_soc_obj'.dfs_precac_timer_running # 0
                     /\ dfs_soc_obj'.cur_precac_dfs_index = w
                     /\ last'.ret = <<[cmd |-> "dfs_agile_ch_cfg_cmd",
                                       freq |-> f]>>
                     /\ IF w = 0 THEN dfs'.dfs_agile_precac_freq_mhz = f
                        ELSE dfs_soc_obj'.peer.dfs.dfs_agile_precac_freq_mhz
                                = f
             ELSE /\ dfs_soc_obj'.dfs_precac_timer_running = 0
                  /\ ~dfs_soc_obj'.precac_state_started
                  /\ last'.ret = <<>>
       /\ MarkingExpiry =>
             IF dfs_soc_obj.cur_precac_dfs_index = 0
             THEN /\ dfs_soc_obj'.peer.list = dfs_soc_obj.peer.list
                  /\ dfs_precac_list' # dfs_precac_list
             ELSE /\ dfs_precac_list' = dfs_precac_list
                  /\ dfs_soc_obj'.peer.list # dfs_soc_obj.peer.list]_vars

\* both radios are active, the completion event on radio 0 has gone on to
\* radio 1, whose forest yielded 5290, and the timer is armed
C36_Witness ==
    /\ dfs_soc_obj.agile_precac_active = <<TRUE, TRUE>>
    /\ last.op = "dfs_process_ocac_complete"
    /\ last.args = <<0, OCAC_RESET>>
    /\ last.ret = <<[cmd |-> "dfs_agile_ch_cfg_cmd", freq |-> 5290]>>
    /\ dfs_soc_obj.cur_precac_dfs_index = 1
    /\ dfs_soc_obj.peer.dfs.dfs_agile_precac_freq_mhz = 5290
    /\ dfs_soc_obj.dfs_precac_timer_running # 0


(***************************************************************************)
(* SpecCycle: one preCAC cycle on a radio whose serving channel does not   *)
(* change, without radar and NOL expiry.  Legacy: the channel is set       *)
(* (dfs_find_vht80_chan_for_precac_for_freq), the timer expires and asks   *)
(* for the next channel set.  Agile: dfs_agile_precac_start, the expiry    *)
(* sends the agile channel, the firmware reports success, the timer set on *)
(* that report expires.  The timer that is armed fires, the firmware       *)
(* completes every agile preCAC and the channel change asked for by an     *)
(* expiry takes place: weak fairness of each step.                         *)
(***************************************************************************)
\* serving channels of 80, 40 and 20 MHz, DFS and not
CycleCurchans ==
    {[mode |-> "80", seg1 |-> 5210, seg2 |-> 0],
     [mode |-> "80", seg1 |-> 5290, seg2 |-> 0],
     [mode |-> "40", seg1 |-> 5190, seg2 |-> 0],
     [mode |-> "40", seg1 |-> 5270, seg2 |-> 0],
     [mode |-> "20", seg1 |-> 5180, seg2 |-> 0],
     [mode |-> "20", seg1 |-> 5260, seg2 |-> 0],
     [mode |-> "20", seg1 |-> 5560, seg2 |-> 0]}

\* the forest as initialised, or with the CAC of the serving channel done
CycleForests(curchan) ==
    {dfs_init_precac_list,
     dfs_mark_precac_done_for_freq(
         dfs_init_precac_list, curchan.seg1, 0,
         dfs_find_chwidth_and_center_chan_for_freq(curchan))}

InitCycle ==
    /\ ctx = [c \in Contexts |-> Idle]
    /\ precac_list_lock = NoHolder
    /\ dfs_curchan \in CycleCurchans
    /\ dfs_precac_list \in CycleForests(dfs_curchan)
    /\ last = NoCall
    /\ pre = dfs_precac_list
    /\ nevents = 0
    /\ watch = NoWatch
    /\ freed = <<>>
    /\ \E target_type \in {"qca9984", "other"} :
          /\ target_type = "qca9984" => dfs_curchan.mode = "80"
          /\ dfs = dfs_set_precac_enable(
                       [list |-> <<>>, dfs |-> InitDfs(DFS_ETSI_DOMAIN),
                        soc |-> InitSoc, out |-> <<>>],
                       1, target_type).dfs
    /\ dfs_soc_obj = InitSoc

\* the channel is set at the start and after an expiry has asked for it
CycleSelect ==
    /\ dfs_is_legacy_precac_enabled(dfs)
    /\ dfs_soc_obj.dfs_precac_timer_running = 0
    /\ last.op \in {"none", "dfs_precac_timeout"}
    /\ \E s \in {dfs_find_vht80_chan_for_precac_for_freq(
                       Here, dfs_curchan, dfs_curchan.seg1)} :
          Configured("dfs_find_vht80_chan_for_precac_for_freq",
                     <<dfs_curchan.seg1>>, s)

CycleStart ==
    /\ dfs_is_agile_precac_enabled(dfs)
    /\ last.op = "none"
    /\ \E s \in {dfs_agile_precac_start(Here)} :
          Configured("dfs_agile_precac_start", <<>>, s)

\* the firmware completes the agile preCAC it was sent
CycleSuccess ==
    /\ dfs_is_agile_precac_enabled(dfs)
    /\ dfs_soc_obj.dfs_precac_timer_running # 0
    /\ dfs_soc_obj.ocac_status = OCAC_RESET
    /\ \E s \in {dfs_process_ocac_complete(Here, dfs_curchan,
                                             OCAC_SUCCESS)} :
          Configured("dfs_process_ocac_complete", <<OCAC_SUCCESS>>, s)

\* the timer fires; the timer of an agile preCAC under way is longer than
\* the firmware's and is cancelled by its report
CanExpire ==
    /\ dfs_soc_obj.dfs_precac_timer_running # 0
    /\ \/ dfs_is_legacy_precac_enabled(dfs)
       \/ dfs_soc_obj.ocac_status = OCAC_SUCCESS

CycleExpire ==
    /\ CanExpire
    /\ \E s \in {dfs_precac_timeout(Here, dfs_curchan)} :
          Configured("dfs_precac_timeout", <<>>, s)

NextCycle == CycleSelect \/ CycleStart \/ CycleSuccess \/ CycleExpire

\* weak fairness of each step; that of CycleExpire is written out with
\* CanExpire, which is ENABLED <<CycleExpire>>_vars (the step sets last)
SpecCycle ==
    /\ InitCycle /\ [][NextCycle]_vars
    /\ WF_vars(CycleSelect) /\ WF_vars(CycleStart)
    /\ WF_vars(CycleSuccess)
    /\ ([]<>(~CanExpire) \/ []<><<CycleExpire>>_vars)

RECURSIVE SumCaced(_, _)
SumCaced(nodes, k) ==
    IF k = 0 THEN 0 ELSE nodes[k].n_caced_subchs + SumCaced(nodes, k - 1)

\* the total of n_caced_subchs over the nodes of the first i trees
RECURSIVE TotalCacDone(_, _)
TotalCacDone(list, i) ==
    IF i = 0 THEN 0
    ELSE SumCaced(list[i].nodes, Len(list[i].nodes))
            + TotalCacDone(list, i - 1)

\* the width preCAC asks of the forest
RequestedWidth ==
    IF dfs_is_legacy_precac_enabled(dfs) THEN DFS_CHWIDTH_80_VAL
    ELSE dfs_translate_chwidth_enum2val(
             dfs_find_agile_width(
                 dfs_find_chwidth_and_center_chan_for_freq(dfs_curchan)))

\* the step is the expiry that completes a preCAC: every legacy expiry, the
\* agile expiry after the firmware's success
CompletionStep ==
    /\ last'.op = "dfs_precac_timeout"
    /\ \/ dfs_is_legacy_precac_enabled(dfs)
       \/ last.op = "dfs_process_ocac_complete"

\* the selection answers 0, the timer is not running and every node of the
\* requested width clear of the serving channel is CAC done
CycleDone ==
    /\ last.op # "none"
    /\ dfs_get_ieeechan_for_precac_for_freq(
           dfs_precac_list, dfs_curchan, dfs_curchan.seg1, 0,
           RequestedWidth) = 0
    /\ dfs_soc_obj.dfs_precac_timer_running = 0
    /\ \A i \in Entries : \A k \in NodeIds(dfs_precac_list[i]) :
          LET n == dfs_precac_list[i].nodes[k]
          IN (/\ n.bandwidth = RequestedWidth
              /\ ~Overlap(<<2 * n.ch_freq - n.bandwidth,
                            2 * n.ch_freq + n.bandwidth>>,
                          <<2 * dfs_curchan.seg1 - RequestedWidth,
                            2 * dfs_curchan.seg1 + RequestedWidth>>))
                => n.n_caced_subchs = N_SUBCHS_FOR_BANDWIDTH(n.bandwidth)

\* C37: in a preCAC cycle with a serving channel that does not change and
\* neither radar nor NOL expiry, every completion makes the total of
\* n_caced_subchs strictly larger, and the cycle comes to a state where the
\* selection answers 0, the timer is not running and every node of the
\* requested width that does not overlap the serving channel is CAC done.
C37_CycleTerminates ==
    /\ [][CompletionStep =>
             TotalCacDone(dfs_precac_list', Len(dfs_precac_list'))
                > TotalCacDone(dfs_precac_list, Len(dfs_precac_list))]_vars
    /\ <>CycleDone

\* an agile cycle beside a 20 MHz serving channel has come to its end with
\* the seven other 20 MHz channels CAC done one after the other
C37_Witness ==
    /\ CycleDone
    /\ dfs_is_agile_precac_enabled(dfs)
    /\ dfs_curchan = [mode |-> "20", seg1 |-> 5260, seg2 |-> 0]
    /\ last.op = "dfs_precac_timeout"
    /\ ~dfs_soc_obj.precac_state_started
    /\ TotalCacDone(dfs_precac_list, Len(dfs_precac_list)) >= 7


\* C38: in agile mode, between handlers, precac_state_started implies that
\* the preCAC timer is running (so that a stop always leaves
\* dfs_agile_precac_start able to arm the timer again).
C38_StartedImpliesTimer ==
    (/\ dfs_is_agile_precac_enabled(dfs)
     /\ dfs_soc_obj.precac_state_started) =>
        dfs_soc_obj.dfs_precac_timer_running # 0


\* the step runs with legacy and agile preCAC both disabled before it, and
\* is not dfs_set_precac_enable
DisabledStep ==
    /\ ~dfs_is_legacy_precac_enabled(dfs)
    /\ ~dfs_is_agile_precac_enabled(dfs)
    /\ last'.op # "dfs_set_precac_enable"

\* C39: with legacy and agile preCAC both disabled the preCAC timer is not
\* running; dfs_set_precac_enable leaves the timer cancelled and
\* precac_state_started false, and no event other than
\* dfs_set_precac_enable arms the timer or marks a channel CAC done while
\* both are disabled.
C39_NoTimerWhileDisabled ==
    [][/\ (/\ ~dfs_is_legacy_precac_enabled(dfs')
           /\ ~dfs_is_agile_precac_enabled(dfs')) =>
              dfs_soc_obj'.dfs_precac_timer_running = 0
       /\ last'.op = "dfs_set_precac_enable" =>
              /\ dfs_soc_obj'.dfs_precac_timer_running = 0
              /\ (dfs_soc_obj.dfs_precac_timer_running # 0 =>
                     ~dfs_soc_obj'.precac_state_started)
       /\ DisabledStep =>
              /\ dfs_soc_obj'.dfs_precac_timer_running = 0
              /\ \A k \in 1..Len(last'.ret) :
                    last'.ret[k].cmd # "dfs_mark_precac_done_for_freq"]_vars

(***************************************************************************)
(* SpecReinit: two radios of one SoC exchange band trees.  Radio 0, in the *)
(* ETSI domain, is in dfs_precac_list and dfs; radio 1, in either domain,  *)
(* in dfs_soc_obj.peer.  CAC completions, radar reports and NOL expiries   *)
(* change the forest of radio 0, dfs_reinit_precac_lists moves entries     *)
(* from either radio to either radio.                                      *)
(***************************************************************************)
\* the [low_5g_freq, high_5g_freq] ranges asked for: the lower band, the
\* upper band, the whole 5 GHz band, and a range that holds no frequency
ReinitRanges ==
    {<<5250, 5330>>, <<5490, 5730>>, <<5170, 5730>>, <<5330, 5250>>}

\* low_5g_freq <= vht80_ch_freq && high_5g_freq >= vht80_ch_freq
InBand(e, low_5g_freq, high_5g_freq) ==
    low_5g_freq <= e.vht80_ch_freq /\ high_5g_freq >= e.vht80_ch_freq

\* the inner TAILQ_FOREACH over the destination list: every entry centred
\* at vht80_ch_freq is unlinked (its own tqe_next stays, so the walk goes on)
ReinitRemoveFromDest(dest, vht80_ch_freq) ==
    SelectSeq(dest, LAMBDA e2 : e2.vht80_ch_freq # vht80_ch_freq)

\* the outer TAILQ_FOREACH over the source list, tmp_precac_entry being
\* src[i]: an entry outside the range is stepped over; an entry inside it is
\* unlinked from src and linked at the tail of dest, where TAILQ_INSERT_TAIL
\* sets its tqe_next to NULL, so the TAILQ_NEXT that continues the loop
\* finds no further entry
RECURSIVE ReinitWalk(_, _, _, _, _)
ReinitWalk(src, dest, i, low_5g_freq, high_5g_freq) ==
    IF i > Len(src) THEN [src |-> src, dest |-> dest]
    ELSE IF InBand(src[i], low_5g_freq, high_5g_freq)
         THEN [src |-> SubSeq(src, 1, i - 1) \o SubSeq(src, i + 1, Len(src)),
               dest |-> Append(ReinitRemoveFromDest(dest,
                                                    src[i].vht80_ch_freq),
                               src[i])]
         ELSE ReinitWalk(src, dest, i + 1, low_5g_freq, high_5g_freq)

\* dfs_reinit_precac_lists: the forests of src_dfs and dest_dfs afterwards;
\* two wlan_dfs are the same object when they are the same radio of the SoC
dfs_reinit_precac_lists(src, src_dfs, dest, dest_dfs, low_5g_freq, high_5g_freq) ==
    IF dest_dfs.dfsdomain # DFS_ETSI_DOMAIN \/ Len(src) = 0
    THEN [src |-> src, dest |-> dest]
    ELSE IF dest_dfs.dfs_psoc_idx = src_dfs.dfs_psoc_idx
         THEN [src |-> src, dest |-> dest]
         ELSE ReinitWalk(src, dest, 1, low_5g_freq, high_5g_freq)

InitReinit ==
    \E dfsdomain \in DfsDomains :
        /\ ctx = [c \in Contexts |-> Idle]
        /\ precac_list_lock = NoHolder
        /\ dfs_precac_list = dfs_init_precac_list
        /\ dfs_curchan = NoChan
        /\ last = NoCall
        /\ pre = dfs_init_precac_list
        /\ nevents = 0
        /\ watch = NoWatch
        /\ freed = <<>>
        /\ dfs = InitDfs(DFS_ETSI_DOMAIN)
        /\ dfs_soc_obj =
              [InitSoc EXCEPT !.peer =
                  [list |-> InitPrecacListIn(<<>>, dfsdomain),
                   dfs |-> [InitDfs(dfsdomain) EXCEPT !.dfs_psoc_idx = 1],
                   curchan |-> NoChan]]

\* the forest and the wlan_dfs of radio idx
ListOf(idx) == IF idx = 0 THEN dfs_precac_list ELSE dfs_soc_obj.peer.list
DfsOf(idx) == IF idx = 0 THEN dfs ELSE dfs_soc_obj.peer.dfs

ReinitPrecacLists ==
    \E src_idx \in 0..(NUM_DFS_PRIVS - 1), dest_idx \in 0..(NUM_DFS_PRIVS - 1) :
        \E range \in ReinitRanges :
            \E r \in {dfs_reinit_precac_lists(ListOf(src_idx), DfsOf(src_idx),
                                              ListOf(dest_idx),
                                              DfsOf(dest_idx),
                                              range[1], range[2])} :
                /\ nevents < MaxEvents
                /\ nevents' = nevents + 1
                /\ dfs_precac_list' = IF src_idx = 0 THEN r.src
                                      ELSE IF dest_idx = 0 THEN r.dest
                                      ELSE dfs_precac_list
                /\ dfs_soc_obj' =
                      [dfs_soc_obj EXCEPT !.peer.list =
                          IF src_idx = 1 THEN r.src
                          ELSE IF dest_idx = 1 THEN r.dest
                          ELSE dfs_soc_obj.peer.list]
                /\ last' = [op |-> "dfs_reinit_precac_lists",
                            args |-> <<src_idx, dest_idx, range[1], range[2]>>,
                            ret |-> 0]
                /\ pre' = dfs_precac_list
                /\ UNCHANGED <<dfs_curchan, watch, freed, dfs, conc>>

NextReinit ==
    MarkDoneS \/ MarkNolS \/ UnmarkNolS \/ ReinitPrecacLists

SpecReinit == InitReinit /\ [][NextReinit]_vars

\* the entries of list centred at vht80_ch_freq
CentredAt(list, vht80_ch_freq) ==
    {k \in 1..Len(list) : list[k].vht80_ch_freq = vht80_ch_freq}

\* entry e of the source list lies in the range and so is to be moved
Moved(src, vht80_ch_freq, low_5g_freq, high_5g_freq) ==
    \E k \in 1..Len(src) :
        /\ src[k].vht80_ch_freq = vht80_ch_freq
        /\ InBand(src[k], low_5g_freq, high_5g_freq)

\* C40: dfs_reinit_precac_lists(src, dest, low, high) changes nothing when
\* dest is not in the ETSI domain, src is empty or src and dest are the same
\* radio; otherwise every entry of src centred in [low, high] is afterwards
\* in dest, with its tree and counters as they were, as the only dest entry
\* of that centre, and is no longer in src; every other entry of src is
\* still in src, and every entry of dest of another centre is still in dest.
C40_ReinitMovesBand ==
    [][last'.op = "dfs_reinit_precac_lists" =>
          LET src_idx == last'.args[1]
              dest_idx == last'.args[2]
              low == last'.args[3]
              high == last'.args[4]
              src == ListOf(src_idx)
              dest == ListOf(dest_idx)
              src2 == IF src_idx = 0 THEN dfs_precac_list'
                      ELSE dfs_soc_obj'.peer.list
              dest2 == IF dest_idx = 0 THEN dfs_precac_list'
                       ELSE dfs_soc_obj'.peer.list
          IN IF \/ DfsOf(dest_idx).dfsdomain # DFS_ETSI_DOMAIN
                \/ src = <<>>
                \/ src_idx = dest_idx
             THEN src2 = src /\ dest2 = dest
             ELSE /\ \A k \in 1..Len(src) :
                        IF InBand(src[k], low, high)
                        THEN /\ CentredAt(src2, src[k].vht80_ch_freq) = {}
                             /\ \E j \in 1..Len(dest2) :
                                   /\ dest2[j] = src[k]
                                   /\ CentredAt(dest2,
                                                src[k].vht80_ch_freq) = {j}
                        ELSE \E j \in 1..Len(src2) : src2[j] = src[k]
                  /\ \A k \in 1..Len(dest) :
                        Moved(src, dest[k].vht80_ch_freq, low, high)
                           \/ \E j \in 1..Len(dest2) : dest2[j] = dest[k]]_vars

====
